---------------------------- MODULE Spec2Model ----------------------------
(***************************************************************************)
(* Terraform file collection pipeline (backend/collect): the clone,        *)
(* override and pull stages, each a batch over work items with one retry   *)
(* pass, and the orchestrator main.py that runs them as subprocesses.      *)
(*                                                                         *)
(* Strings that the code parses are sequences of one-character strings, so *)
(* that startswith / split / endswith are computed as Python computes      *)
(* them.  A directory under <script_dir>/repos is the sequence of its path *)
(* segments, each segment again a sequence of characters.                  *)
(***************************************************************************)
EXTENDS Integers, Sequences, FiniteSets, TLC

(***************************************************************************)
(* Bounds of the model.                                                    *)
(***************************************************************************)
\* longest `repositories` list of a configuration file given to a stage script
MaxItems == 2
\* longest `repositories` list, and longest listing of a directory service,
\* in a run of main.py
MaxPipelineItems == 2

(***************************************************************************)
(* Python string and list helpers.                                         *)
(***************************************************************************)
\* str.startswith(prefix)
StartsWith(s, p) == Len(s) >= Len(p) /\ SubSeq(s, 1, Len(p)) = p

\* str.endswith(suffix)
EndsWith(s, p) ==
    Len(s) >= Len(p) /\ SubSeq(s, Len(s) - Len(p) + 1, Len(s)) = p

\* str.split(sep) for a one-character separator: the list of the fields
RECURSIVE Split(_, _)
Split(s, c) ==
    IF \E i \in 1..Len(s) : s[i] = c
    THEN LET i == CHOOSE k \in 1..Len(s) :
                      s[k] = c /\ \A j \in 1..(k - 1) : s[j] # c
         IN  <<SubSeq(s, 1, i - 1)>> \o Split(SubSeq(s, i + 1, Len(s)), c)
    ELSE <<s>>

\* the elements of a list
Range(s) == {s[i] : i \in 1..Len(s)}

\* the number of entries of list s equal to x
Count(s, x) == Cardinality({i \in 1..Len(s) : s[i] = x})

\* seeded fault: list.remove(x) that drops nothing
RemoveNothing(s, x) == s

\* seeded fault: every entry equal to x is dropped, not only the first
RemoveAll(s, x) ==
    LET keep == {i \in 1..Len(s) : s[i] # x}
        nth(k) == CHOOSE i \in keep : Cardinality({j \in keep : j < i}) = k - 1
    IN  [k \in 1..Cardinality(keep) |-> s[nth(k)]]

\* list.remove(x): the list without its first entry equal to x
Remove(s, x) ==
    IF \E i \in 1..Len(s) : s[i] = x
    THEN LET i == CHOOSE k \in 1..Len(s) :
                      s[k] = x /\ \A j \in 1..(k - 1) : s[j] # x
         IN  SubSeq(s, 1, i - 1) \o SubSeq(s, i + 1, Len(s))
    ELSE s

\* all lists over S of length at most n
SeqsUpTo(S, n) == UNION {[1..k -> S] : k \in 0..n}

(***************************************************************************)
(* The URLs a configuration may list.                                      *)
(***************************************************************************)
GitAt  == <<"g", "i", "t", "@">>
DotGit == <<".", "g", "i", "t">>

\* git@h:a/r.git
UrlARGit == GitAt \o <<"h", ":", "a", "/", "r">> \o DotGit
\* git@h:a/r      (the same working copy as UrlARGit)
UrlAR == GitAt \o <<"h", ":", "a", "/", "r">>
\* git@h:b/s.git
UrlBSGit == GitAt \o <<"h", ":", "b", "/", "s">> \o DotGit
\* https://h/a/r.git
UrlHttps ==
    <<"h", "t", "t", "p", "s", ":", "/", "/", "h", "/", "a", "/", "r">> \o DotGit
\* git@h:a        (no repository segment)
UrlNoRepo == GitAt \o <<"h", ":", "a">>
\* git@h          (no colon at all)
UrlNoColon == GitAt \o <<"h">>

Urls == {UrlARGit, UrlAR, UrlBSGit, UrlHttps, UrlNoRepo, UrlNoColon}

(***************************************************************************)
(* clone.py: parsing a URL.                                                *)
(***************************************************************************)
\* the result of extract_repo_info: raised = an IndexError left the function,
\* none = it returned (None, None), otherwise (project, repo)
ParseRaised == [raised |-> TRUE, none |-> FALSE, project |-> <<>>, repo |-> <<>>]
ParseNone   == [raised |-> FALSE, none |-> TRUE, project |-> <<>>, repo |-> <<>>]

\* extract_repo_info(git_url)
ExtractRepoInfo(git_url) ==
    IF StartsWith(git_url, GitAt)
    THEN LET fields == Split(git_url, ":")
         IN  IF Len(fields) < 2 THEN ParseRaised   \* split(':')[1]: IndexError
             ELSE LET path_part == IF EndsWith(fields[2], DotGit)
                                   THEN SubSeq(fields[2], 1, Len(fields[2]) - 4)
                                   ELSE fields[2]
                      parts == Split(path_part, "/")
                  IN  IF Len(parts) >= 2
                      THEN [raised |-> FALSE, none |-> FALSE,
                            project |-> parts[1], repo |-> parts[2]]
                      ELSE ParseNone
    ELSE ParseNone

\* Python truth value of a parsed name: None and '' are false
Truthy(info, name) == ~info.none /\ name # <<>>


(***************************************************************************)
(* State.                                                                  *)
(***************************************************************************)
VARIABLES
    invocation,    \* the script the user launched
    discover,      \* whether main.py was given --discover
    config,        \* the configuration file named on the command line
    cwd_is_script, \* whether the working directory is the scripts' directory
    tools,         \* how `terraform --version` and `git --version` end on this machine
    bitbucket,     \* the 'bitbucket' section of the configuration file
    net,           \* what the directory services answer to a listing request
    gen_script,    \* <script_dir>/repos.yaml
    gen_cwd,       \* ./repos.yaml where the working directory is another one
    orch_pc,       \* where main.py is: "loop", "wait", "exited" ("none": not run)
    si,            \* the index in stages of the stage of the running iteration
    orch_exit,     \* the exit status of main.py once it has exited (-1 before)
    started,       \* the stage scripts main.py has launched, in order
    exits,         \* the exit statuses run_stage has seen, in order
    arg,           \* the configuration path given to the running stage process
    base,          \* whether <script_dir>/repos exists
    dirs,          \* the directories under <script_dir>/repos
    wc,            \* the directories that hold a cloned working copy
    files,         \* the files under <script_dir>/repos: <<directory, name, content>>
    stage,         \* the stage script whose process is running, or "none"
    pc,            \* where that process is
    exit_code,     \* its exit status once it has exited (-1 before)
    ended,         \* how it ended: by which exit of main(), or by an exception
    items,         \* the work items it enumerated
    idx,           \* the index of the next item of the running loop
    successful,    \* successful_clones / successful_overrides / successful_pulls
    failed,        \* failed_clones / failed_overrides / failed_pulls
    retry_queue,   \* retry_queue
    retry_failed,  \* retry_failed
    retry_pos,     \* for each retry_queue entry, its position in items
    outcomes,      \* per position of items, the return values of its attempts
    giterrs,       \* per position, whether the git client raised in each attempt
    attempts       \* per position, what each attempt met and did

vars == <<invocation, discover, config, cwd_is_script, tools, bitbucket, net,
          gen_script, gen_cwd,
          orch_pc, si, orch_exit, started, exits, arg,
          base, dirs, wc, files, stage, pc, exit_code, ended,
          items, idx, successful, failed, retry_queue, retry_failed,
          retry_pos, outcomes, giterrs, attempts>>

\* what no step of a stage process changes but the write of repos.yaml
ctxVars == <<invocation, discover, config, cwd_is_script, tools, bitbucket, net,
             gen_cwd,
             orch_pc, si, orch_exit, started, exits, stage, arg>>

fsVars     == <<base, dirs, wc, files>>
engineVars == <<items, idx, successful, failed, retry_queue, retry_failed,
                retry_pos, outcomes, giterrs, attempts>>

(***************************************************************************)
(* clone.py: the git client and the processing of one URL.                 *)
(***************************************************************************)
\* what the environment does to one attempt of the clone stage
\* (tf: whether the checkout leaves Terraform files in the working tree)
CloneEnvs ==
    [mkdir : {"ok", "fail"}, clone : {"ok", "err"}, sparse : {"ok", "err"},
     tf : BOOLEAN]

\* file names
MainTf  == <<"m", ".", "t", "f">>
XTf     == <<"x", ".", "t", "f">>
ReadMe  == <<"R", "E", "A", "D", "M", "E">>
TfState == <<"t", "e", "r", "r", "a", "f", "o", "r", "m", ".", "t", "f", "s", "t", "a", "t", "e">>
DotTf   == <<".", "t", "f">>

\* the files of directory d with file `name` (re)written with `content`
WriteFile(fs, d, name, content) ==
    {f \in fs : ~(f[1] = d /\ f[2] = name)} \cup {<<d, name, content>>}

\* GitCliClient.get_repo_path, relative to <script_dir>/repos
GetRepoPath(project, repo) == <<project, repo>>

\* GitCliClient.create_repo_path: os.makedirs unless the path exists;
\* raised = makedirs raised an OSError
CreateRepoPath(project, repo, env, d) ==
    IF GetRepoPath(project, repo) \in d
    THEN [raised |-> FALSE, dirs |-> d]
    ELSE IF env.mkdir = "ok"
         THEN [raised |-> FALSE,
               dirs |-> d \cup {<<project>>, GetRepoPath(project, repo)}]
         ELSE [raised |-> TRUE, dirs |-> d]

\* GitCliClient.clone_repo: create_repo_path is outside the try, clone_from
\* inside it; git refuses to clone into a directory that holds a working copy
CloneRepo(project, repo, env, d, w) ==
    LET made == CreateRepoPath(project, repo, env, d)
        path == GetRepoPath(project, repo)
        git_raises == env.clone = "err" \/ path \in w
    IN  IF made.raised
        THEN [raised |-> TRUE, dirs |-> made.dirs, wc |-> w, git_err |-> FALSE]
        ELSE [raised |-> FALSE, dirs |-> made.dirs,
              wc |-> IF git_raises THEN w ELSE w \cup {path},
              git_err |-> git_raises]

\* GitCliClient.set_sparse_checkout: returns early when the path is missing;
\* git.Repo raises where there is no working copy; every error is swallowed.
\* Where git succeeds the working tree may receive the repository's .tf files.
SetSparseCheckout(project, repo, env, d, w, fs) ==
    LET path == GetRepoPath(project, repo)
        git_raises == path \notin w \/ env.sparse = "err"
    IN  IF path \notin d
        THEN [raised |-> FALSE, git_err |-> FALSE, files |-> fs]
        ELSE [raised |-> FALSE, git_err |-> git_raises,
              files |-> IF ~git_raises /\ env.tf
                        THEN WriteFile(fs, path, MainTf, "remote")
                        ELSE fs]

\* the result of clone_repository(git_client, git_url, rate_limit):
\* raised = an exception left the function, ret = its return value,
\* existed = a working copy was at the computed path when it was called,
\* calls = the GitCliClient methods it called, in order
CloneRepository(git_url, rate_limit, env, d, w, fs) ==
    LET info == ExtractRepoInfo(git_url)
    IN  IF info.raised
        THEN [raised |-> TRUE, ret |-> FALSE, dirs |-> d, wc |-> w,
              files |-> fs, git_err |-> FALSE, slept |-> FALSE,
              existed |-> FALSE, calls |-> <<>>]
        ELSE IF ~Truthy(info, info.project) \/ ~Truthy(info, info.repo)
        THEN [raised |-> FALSE, ret |-> FALSE, dirs |-> d, wc |-> w,
              files |-> fs, git_err |-> FALSE, slept |-> FALSE,
              existed |-> FALSE, calls |-> <<>>]
        ELSE LET c == CloneRepo(info.project, info.repo, env, d, w)
                 s == SetSparseCheckout(info.project, info.repo, env,
                                        c.dirs, c.wc, fs)
                 was == GetRepoPath(info.project, info.repo) \in w
             IN  IF c.raised
                 THEN [raised |-> FALSE, ret |-> FALSE, dirs |-> c.dirs,
                       wc |-> c.wc, files |-> fs, git_err |-> c.git_err,
                       slept |-> FALSE,
                       existed |-> was, calls |-> <<"clone_repo">>]
                 ELSE [raised |-> FALSE, ret |-> TRUE, dirs |-> c.dirs,
                       wc |-> c.wc, files |-> s.files,
                       git_err |-> c.git_err \/ s.git_err,
                       slept |-> rate_limit > 0,
                       existed |-> was,
                       calls |-> <<"clone_repo", "set_sparse_checkout">>]

(***************************************************************************)
(* Configuration files.                                                    *)
(***************************************************************************)
\* config.get('rate_limit', 0.1), in tenths of a second
DefaultRateLimit == 1

\* the override source directories of the model, and what each holds
AwsDir     == "./aws_deployment_overrides"
K8sDir     == "./k8s/deployment/overrides"
MissingDir == "./no_such_directory"

\* get_override_sources: default_sources
DefaultSources == <<AwsDir, K8sDir>>

\* the top-level files (<<name, content>>) of an existing source directory
SourceTree(dir) ==
    CASE dir = AwsDir -> {<<XTf, "aws">>, <<ReadMe, "aws">>}
      [] dir = K8sDir -> {<<XTf, "k8s">>}
      [] OTHER -> {}

\* os.path.exists of a source directory
SourceExists(dir) == dir \in {AwsDir, K8sDir}

\* a configuration file: whether it exists, the keys it holds, their values;
\* sources_list = FALSE: the value of override_sources is not a list (null)
Config(found, keys, repositories, rate_limit, sources_list, sources) ==
    [found |-> found, keys |-> keys, repositories |-> repositories,
     rate_limit |-> rate_limit, sources_list |-> sources_list,
     sources |-> sources]

NoConfig == Config(FALSE, {}, <<>>, 0, TRUE, <<>>)

\* config.get('rate_limit', 0.1)
RateLimitOf(cfg) ==
    IF "rate_limit" \in cfg.keys THEN cfg.rate_limit ELSE DefaultRateLimit

\* get_override_sources(config)
GetOverrideSources(cfg) ==
    IF "override_sources" \in cfg.keys
    THEN [is_list |-> cfg.sources_list, list |-> cfg.sources]
    ELSE [is_list |-> TRUE, list |-> DefaultSources]

\* the configuration files a run of the clone stage may be given
CloneConfigs ==
    {NoConfig, Config(TRUE, {}, <<>>, 0, TRUE, <<>>)}
    \cup {Config(TRUE, {"repositories"}, r, 0, TRUE, <<>>) :
              r \in SeqsUpTo(Urls, MaxItems)}
    \cup {Config(TRUE, {"repositories", "rate_limit"}, r, l, TRUE, <<>>) :
              r \in SeqsUpTo(Urls, MaxItems), l \in {0, 2}}

\* the configuration files a run of the override or pull stage may be given
OverrideConfigs ==
    {NoConfig, Config(TRUE, {"repositories"}, <<>>, 0, TRUE, <<>>),
     Config(TRUE, {"repositories", "override_sources"}, <<>>, 0, FALSE, <<>>)}
    \cup {Config(TRUE, {"repositories", "override_sources"}, <<>>, 0, TRUE, l) :
              l \in {<<K8sDir, AwsDir>>, <<MissingDir>>, <<MissingDir, AwsDir>>}}

\* the path main.py gives to the stages after discovery
ReposYaml == "repos.yaml"

\* load_config(config_path) of the running stage process: the relative path
\* repos.yaml is resolved against the working directory
StageConfig ==
    IF arg = ReposYaml
    THEN IF cwd_is_script THEN gen_script ELSE gen_cwd
    ELSE config

(***************************************************************************)
(* A stage process ends.                                                   *)
(***************************************************************************)
\* the process of the running stage exits with `code`
Exit(code, how) ==
    /\ pc' = "exited"
    /\ exit_code' = code
    /\ ended' = how

\* the locals of a stage's main() before its first pass over `list`
StartPasses(list) ==
    /\ items' = list
    /\ idx' = 1
    /\ successful' = <<>>
    /\ failed' = <<>>
    /\ retry_queue' = <<>>
    /\ retry_failed' = <<>>
    /\ retry_pos' = <<>>
    /\ outcomes' = [i \in 1..Len(list) |-> <<>>]
    /\ giterrs' = [i \in 1..Len(list) |-> <<>>]
    /\ attempts' = [i \in 1..Len(list) |-> <<>>]

(***************************************************************************)
(* The two passes of main(), the same in clone.py, override.py and         *)
(* pull.py: where an attempt's result is recorded.  name = what the lists  *)
(* hold (the URL, or the directory's basename), item = what the retry      *)
(* queue holds (the URL, or the directory), pos = the item's position.     *)
(***************************************************************************)
\* seeded fault: the retry queue is fed outside the else branch, so it
\* receives every item
RecordFirstQueuesAll(ok, name, item, pos) ==
    [successful |-> IF ok THEN Append(successful, name) ELSE successful,
     failed |-> IF ok THEN failed ELSE Append(failed, name),
     retry_queue |-> Append(retry_queue, item),
     retry_pos |-> Append(retry_pos, pos)]

\* seeded fault: a failed item is put at the head of the retry queue
RecordFirstQueuesAtHead(ok, name, item, pos) ==
    IF ok
    THEN [successful |-> Append(successful, name), failed |-> failed,
          retry_queue |-> retry_queue, retry_pos |-> retry_pos]
    ELSE [successful |-> successful, failed |-> Append(failed, name),
          retry_queue |-> <<item>> \o retry_queue,
          retry_pos |-> <<pos>> \o retry_pos]

\* the first pass's if/else: success list, or failure list and retry queue
RecordFirst(ok, name, item, pos) ==
    IF ok
    THEN [successful |-> Append(successful, name), failed |-> failed,
          retry_queue |-> retry_queue, retry_pos |-> retry_pos]
    ELSE [successful |-> successful, failed |-> Append(failed, name),
          retry_queue |-> Append(retry_queue, item),
          retry_pos |-> Append(retry_pos, pos)]

\* seeded fault: a successful retry is reported but the lists are left alone
RecordRetryKeepsFailure(ok, name) ==
    IF ok
    THEN [successful |-> successful, failed |-> failed,
          retry_failed |-> retry_failed]
    ELSE [successful |-> successful, failed |-> failed,
          retry_failed |-> Append(retry_failed, name)]

\* seeded fault: a second failure is appended to the failure list again
RecordRetryAppendsFailure(ok, name) ==
    IF ok
    THEN [successful |-> Append(successful, name),
          failed |-> Remove(failed, name), retry_failed |-> retry_failed]
    ELSE [successful |-> successful, failed |-> Append(failed, name),
          retry_failed |-> Append(retry_failed, name)]

\* the retry pass's if/else: moved to the success list, or noted in retry_failed
RecordRetry(ok, name) ==
    IF ok
    THEN [successful |-> Append(successful, name),
          failed |-> Remove(failed, name), retry_failed |-> retry_failed]
    ELSE [successful |-> successful, failed |-> failed,
          retry_failed |-> Append(retry_failed, name)]

\* seeded fault: the summary is printed and the process ends normally
SummaryStatusIgnoringFailures(failure_list) == 0

\* the exit status after the summary: sys.exit(1) if the failure list is not empty
SummaryStatus(failure_list) == IF failure_list # <<>> THEN 1 ELSE 0

(***************************************************************************)
(* clone.py: main().                                                       *)
(***************************************************************************)
\* main() up to the first pass: load_config, the 'repositories' check,
\* GitCliClient(script_dir), the three empty lists
CloneStart ==
    /\ stage = "clone.py" /\ pc = "start"
    /\ IF ~StageConfig.found
       THEN Exit(1, "config_error") /\ UNCHANGED <<fsVars, engineVars>>
       ELSE IF "repositories" \notin StageConfig.keys
       THEN Exit(1, "config_error") /\ UNCHANGED <<fsVars, engineVars>>
       ELSE /\ StartPasses(StageConfig.repositories)
            /\ base' = TRUE
            /\ pc' = "first_pass"
            /\ UNCHANGED <<dirs, wc, files, exit_code, ended>>
    /\ UNCHANGED <<ctxVars, gen_script>>

\* one iteration of the first pass
CloneFirstPass ==
    /\ stage = "clone.py" /\ pc = "first_pass" /\ idx <= Len(items)
    /\ \E env \in CloneEnvs :
         LET repo_url == items[idx]
             r == CloneRepository(repo_url, RateLimitOf(StageConfig), env,
                                  dirs, wc, files)
         IN  IF r.raised
             THEN /\ Exit(1, "exception")
                  /\ UNCHANGED <<fsVars, engineVars>>
             ELSE /\ dirs' = r.dirs /\ wc' = r.wc /\ files' = r.files
                  /\ outcomes' = [outcomes EXCEPT ![idx] = Append(@, r.ret)]
                  /\ giterrs' = [giterrs EXCEPT ![idx] = Append(@, r.git_err)]
                  /\ attempts' = [attempts EXCEPT ![idx] =
                         Append(@, [existed |-> r.existed, calls |-> r.calls,
                                    slept |-> r.slept])]
                  /\ LET rec == RecordFirst(r.ret, repo_url, repo_url, idx)
                     IN  /\ successful' = rec.successful
                         /\ failed' = rec.failed
                         /\ retry_queue' = rec.retry_queue
                         /\ retry_pos' = rec.retry_pos
                  /\ idx' = idx + 1
                  /\ UNCHANGED <<base, items, retry_failed, pc, exit_code, ended>>
    /\ UNCHANGED <<ctxVars, gen_script>>

\* `if retry_queue:` taken after the first pass
CloneRetryStart ==
    /\ stage = "clone.py" /\ pc = "first_pass" /\ idx > Len(items)
    /\ retry_queue # <<>>
    /\ pc' = "retry_pass"
    /\ idx' = 1
    /\ retry_failed' = <<>>
    /\ UNCHANGED <<ctxVars, gen_script, fsVars, exit_code, ended, items,
                   successful, failed, retry_queue, retry_pos, outcomes, giterrs,
                   attempts>>

\* one iteration of the retry pass
CloneRetry ==
    /\ stage = "clone.py" /\ pc = "retry_pass" /\ idx <= Len(retry_queue)
    /\ \E env \in CloneEnvs :
         LET repo_url == retry_queue[idx]
             pos == retry_pos[idx]
             r == CloneRepository(repo_url, RateLimitOf(StageConfig), env,
                                  dirs, wc, files)
         IN  IF r.raised
             THEN /\ Exit(1, "exception")
                  /\ UNCHANGED <<fsVars, engineVars>>
             ELSE /\ dirs' = r.dirs /\ wc' = r.wc /\ files' = r.files
                  /\ outcomes' = [outcomes EXCEPT ![pos] = Append(@, r.ret)]
                  /\ giterrs' = [giterrs EXCEPT ![pos] = Append(@, r.git_err)]
                  /\ attempts' = [attempts EXCEPT ![pos] =
                         Append(@, [existed |-> r.existed, calls |-> r.calls,
                                    slept |-> r.slept])]
                  /\ LET rec == RecordRetry(r.ret, repo_url)
                     IN  /\ successful' = rec.successful
                         /\ failed' = rec.failed
                         /\ retry_failed' = rec.retry_failed
                  /\ idx' = idx + 1
                  /\ UNCHANGED <<base, items, retry_queue, retry_pos, pc,
                                 exit_code, ended>>
    /\ UNCHANGED <<ctxVars, gen_script>>

\* the summary and the exit status
CloneSummary ==
    /\ stage = "clone.py"
    /\ \/ pc = "first_pass" /\ idx > Len(items) /\ retry_queue = <<>>
       \/ pc = "retry_pass" /\ idx > Len(retry_queue)
    /\ Exit(SummaryStatus(failed), "summary")
    /\ UNCHANGED <<ctxVars, gen_script, fsVars, engineVars>>

(***************************************************************************)
(* override.py and pull.py: the working copies they enumerate.             *)
(***************************************************************************)
\* os.path.basename of a directory
Basename(path) == path[Len(path)]

\* the permutations of a finite set, as lists (os.listdir promises no order)
Perms(S) ==
    {p \in [1..Cardinality(S) -> S] :
        \A i, j \in 1..Cardinality(S) : p[i] = p[j] => i = j}

\* the entries d of <script_dir>/repos that are directories and not hidden
RepoDirs(d) == {path \in d : Len(path) = 1 /\ ~StartsWith(path[1], <<".">>)}

(***************************************************************************)
(* override.py: the processing of one working copy.                        *)
(***************************************************************************)
\* find_tf_files(directory): the *.tf files at the top of the directory
FindTfFiles(directory) ==
    IF ~SourceExists(directory) THEN {}
    ELSE {f \in SourceTree(directory) : EndsWith(f[1], DotTf)}

\* every file a copy can be asked for: <<source directory, name>>
SourceFiles ==
    UNION {{<<dir, f[1]>> : f \in FindTfFiles(dir)} : dir \in {AwsDir, K8sDir}}

\* copy_override_files from its i-th source directory on; bad = the copies
\* for which shutil.copy2 raises (logged, and the loop goes on)
RECURSIVE CopyFrom(_, _, _, _, _)
CopyFrom(source_dirs, i, repo_dir, bad, fs) ==
    IF i > Len(source_dirs) THEN [files |-> fs, copied |-> {}]
    ELSE LET dir == source_dirs[i]
             good == {f \in FindTfFiles(dir) : <<dir, f[1]>> \notin bad}
             kept == {f \in fs :
                        ~(f[1] = repo_dir /\ \E g \in good : g[1] = f[2])}
             rest == CopyFrom(source_dirs, i + 1, repo_dir, bad,
                              kept \cup {<<repo_dir, g[1], g[2]>> : g \in good})
         IN  [files |-> rest.files,
              copied |-> {<<dir, g[1]>> : g \in good} \cup rest.copied]

\* seeded fault: the source directories are gone through last to first
CopyOverrideFilesReversed(source_dirs, repo_dir, bad, fs) ==
    CopyFrom([i \in 1..Len(source_dirs) |-> source_dirs[Len(source_dirs) + 1 - i]],
             1, repo_dir, bad, fs)

\* copy_override_files(source_dirs, repo_dir)
CopyOverrideFiles(source_dirs, repo_dir, bad, fs) ==
    CopyFrom(source_dirs, 1, repo_dir, bad, fs)

\* process_repository(repo_dir, override_sources) of override.py; iterating
\* a value that is no list raises a TypeError, which the function catches;
\* not_copied = the copies it asked for that raised
OverrideProcessRepository(repo_dir, override_sources, bad, d, fs) ==
    IF repo_dir \notin d
    THEN [ret |-> FALSE, files |-> fs, not_copied |-> {}]
    ELSE IF ~override_sources.is_list
    THEN [ret |-> FALSE, files |-> fs, not_copied |-> {}]
    ELSE [ret |-> TRUE,
          files |-> CopyOverrideFiles(override_sources.list, repo_dir,
                                      bad, fs).files,
          not_copied |->
              {c \in bad : \E i \in 1..Len(override_sources.list) :
                               /\ c[1] = override_sources.list[i]
                               /\ \E f \in FindTfFiles(c[1]) : f[1] = c[2]}]

(***************************************************************************)
(* override.py: main().                                                    *)
(***************************************************************************)
\* seeded fault: an empty listing ends the process with sys.exit(1)
OverrideStartFailsOnNone ==
    /\ stage = "override.py" /\ pc = "start"
    /\ IF ~StageConfig.found
       THEN Exit(1, "config_error") /\ UNCHANGED engineVars
       ELSE IF ~base
       THEN Exit(1, "precondition") /\ UNCHANGED engineVars
       ELSE IF RepoDirs(dirs) = {}
       THEN Exit(1, "no_items") /\ UNCHANGED engineVars
       ELSE /\ \E repo_dirs \in Perms(RepoDirs(dirs)) : StartPasses(repo_dirs)
            /\ pc' = "first_pass"
            /\ UNCHANGED <<exit_code, ended>>
    /\ UNCHANGED <<ctxVars, gen_script, fsVars>>

\* main() up to the first pass: load_config, the repos directory check,
\* the listing of the working copies
OverrideStart ==
    /\ stage = "override.py" /\ pc = "start"
    /\ IF ~StageConfig.found
       THEN Exit(1, "config_error") /\ UNCHANGED engineVars
       ELSE IF ~base
       THEN Exit(1, "precondition") /\ UNCHANGED engineVars
       ELSE IF RepoDirs(dirs) = {}
       THEN Exit(0, "no_items") /\ UNCHANGED engineVars
       ELSE /\ \E repo_dirs \in Perms(RepoDirs(dirs)) : StartPasses(repo_dirs)
            /\ pc' = "first_pass"
            /\ UNCHANGED <<exit_code, ended>>
    /\ UNCHANGED <<ctxVars, gen_script, fsVars>>

\* one iteration of the first pass
OverrideFirstPass ==
    /\ stage = "override.py" /\ pc = "first_pass" /\ idx <= Len(items)
    /\ \E bad \in SUBSET SourceFiles :
         LET repo_dir == items[idx]
             r == OverrideProcessRepository(repo_dir, GetOverrideSources(StageConfig),
                                            bad, dirs, files)
         IN  /\ files' = r.files
             /\ outcomes' = [outcomes EXCEPT ![idx] = Append(@, r.ret)]
             /\ attempts' = [attempts EXCEPT ![idx] =
                    Append(@, [not_copied |-> r.not_copied])]
             /\ LET rec == RecordFirst(r.ret, Basename(repo_dir), repo_dir, idx)
                IN  /\ successful' = rec.successful
                    /\ failed' = rec.failed
                    /\ retry_queue' = rec.retry_queue
                    /\ retry_pos' = rec.retry_pos
    /\ idx' = idx + 1
    /\ UNCHANGED <<ctxVars, gen_script, base, dirs, wc, items,
                   retry_failed, giterrs, pc, exit_code, ended>>

\* `if retry_queue:` taken after the first pass
OverrideRetryStart ==
    /\ stage = "override.py" /\ pc = "first_pass" /\ idx > Len(items)
    /\ retry_queue # <<>>
    /\ pc' = "retry_pass"
    /\ idx' = 1
    /\ retry_failed' = <<>>
    /\ UNCHANGED <<ctxVars, gen_script, fsVars, exit_code, ended, items,
                   successful, failed, retry_queue, retry_pos, outcomes, giterrs,
                   attempts>>

\* one iteration of the retry pass
OverrideRetry ==
    /\ stage = "override.py" /\ pc = "retry_pass" /\ idx <= Len(retry_queue)
    /\ \E bad \in SUBSET SourceFiles :
         LET repo_dir == retry_queue[idx]
             repo_name == Basename(repo_dir)
             pos == retry_pos[idx]
             r == OverrideProcessRepository(repo_dir, GetOverrideSources(StageConfig),
                                            bad, dirs, files)
         IN  /\ files' = r.files
             /\ outcomes' = [outcomes EXCEPT ![pos] = Append(@, r.ret)]
             /\ attempts' = [attempts EXCEPT ![pos] =
                    Append(@, [not_copied |-> r.not_copied])]
             /\ LET rec == RecordRetry(r.ret, repo_name)
                IN  /\ successful' = rec.successful
                    /\ failed' = rec.failed
                    /\ retry_failed' = rec.retry_failed
    /\ idx' = idx + 1
    /\ UNCHANGED <<ctxVars, gen_script, base, dirs, wc, items,
                   retry_queue, retry_pos, giterrs, pc, exit_code, ended>>

\* the summary and the exit status
OverrideSummary ==
    /\ stage = "override.py"
    /\ \/ pc = "first_pass" /\ idx > Len(items) /\ retry_queue = <<>>
       \/ pc = "retry_pass" /\ idx > Len(retry_queue)
    /\ Exit(SummaryStatus(failed), "summary")
    /\ UNCHANGED <<ctxVars, gen_script, fsVars, engineVars>>

(***************************************************************************)
(* pull.py: the processing of one working copy.                            *)
(***************************************************************************)
\* what the environment does to one attempt of the pull stage: how
\* `terraform init` and `terraform state pull` end, what the latter prints,
\* and whether terraform.tfstate can be written
PullEnvs ==
    [init : {"ok", "nonzero", "timeout"}, pull : {"ok", "nonzero", "timeout"},
     out : {"", "state"}, write : {"ok", "err"}]

\* whether path q lies in the tree of directory p
InTree(p, q) == Len(q) >= Len(p) /\ SubSeq(q, 1, Len(p)) = p

\* seeded fault: the walk goes into the .git directories too
HasTerraformFilesAnywhere(repo_dir, fs) ==
    \E f \in fs : InTree(repo_dir, f[1]) /\ EndsWith(f[2], DotTf)

\* has_terraform_files(repo_dir): os.walk without the .git directories
HasTerraformFiles(repo_dir, fs) ==
    \E f \in fs :
        /\ InTree(repo_dir, f[1])
        /\ \A k \in (Len(repo_dir) + 1)..Len(f[1]) : f[1][k] # DotGit
        /\ EndsWith(f[2], DotTf)

\* seeded fault: a command that outlives its timeout is not reported
RunCommandRaisesOnStatusOnly(how, check) == check /\ how = "nonzero"

\* run_command: with check=True a non-zero status raises, a timeout always
RunCommandRaises(how, check) == how = "timeout" \/ (check /\ how = "nonzero")

\* seeded fault: `terraform init` is run with check=False
TerraformInitUnchecked(env) == ~RunCommandRaises(env.init, FALSE)

\* terraform_init(repo_dir)
TerraformInit(env) == ~RunCommandRaises(env.init, TRUE)

\* seeded fault: `terraform state pull` is run with check=True and its output
\* is kept only if it is not empty
TerraformStatePullChecked(repo_dir, env, fs) ==
    IF RunCommandRaises(env.pull, TRUE)
    THEN [ret |-> FALSE, files |-> fs, status |-> "none", wrote |-> FALSE]
    ELSE IF env.write = "err" \/ env.out = ""
    THEN [ret |-> FALSE, files |-> fs, status |-> env.pull, wrote |-> FALSE]
    ELSE [ret |-> TRUE, files |-> WriteFile(fs, repo_dir, TfState, env.out),
          status |-> env.pull, wrote |-> TRUE]

\* terraform_state_pull(repo_dir): the output is written whatever the status;
\* status = how the command ended where run_command returned ("none" where
\* it raised), wrote = terraform.tfstate was written
TerraformStatePull(repo_dir, env, fs) ==
    IF RunCommandRaises(env.pull, FALSE)
    THEN [ret |-> FALSE, files |-> fs, status |-> "none", wrote |-> FALSE]
    ELSE IF env.write = "err"
    THEN [ret |-> FALSE, files |-> fs, status |-> env.pull, wrote |-> FALSE]
    ELSE [ret |-> TRUE, files |-> WriteFile(fs, repo_dir, TfState, env.out),
          status |-> env.pull, wrote |-> TRUE]

\* process_repository(repo_dir) of pull.py; steps = the terraform commands run
PullProcessRepository(repo_dir, env, d, fs) ==
    IF repo_dir \notin d
    THEN [ret |-> FALSE, files |-> fs, steps |-> <<>>,
          status |-> "none", wrote |-> FALSE]
    ELSE IF ~HasTerraformFiles(repo_dir, fs)
    THEN [ret |-> TRUE, files |-> fs, steps |-> <<>>,
          status |-> "none", wrote |-> FALSE]
    ELSE IF ~TerraformInit(env)
    THEN [ret |-> FALSE, files |-> fs, steps |-> <<"init">>,
          status |-> "none", wrote |-> FALSE]
    ELSE LET p == TerraformStatePull(repo_dir, env, fs)
         IN  [ret |-> p.ret, files |-> p.files, steps |-> <<"init", "pull">>,
              status |-> p.status, wrote |-> p.wrote]

(***************************************************************************)
(* pull.py: main().                                                        *)
(***************************************************************************)
\* how a version query can end: it answers, the program is not found, it
\* exits non-zero, it does not answer within 10 seconds
ToolResults == {"ok", "missing", "nonzero", "timeout"}

\* seeded fault: only terraform is looked for
CheckPrerequisitesTerraformOnly(t) == t.terraform = "ok"

\* check_prerequisites(): `terraform --version` and `git --version`, each
\* with check=True and a timeout; any of the three exceptions counts as missing
CheckPrerequisites(t) == t.terraform = "ok" /\ t.git = "ok"

\* main() up to the first pass: check_prerequisites, load_config, the repos
\* directory check, the listing of the working copies
PullStart ==
    /\ stage = "pull.py" /\ pc = "start"
    /\ IF ~CheckPrerequisites(tools)
       THEN Exit(1, "precondition") /\ UNCHANGED engineVars
       ELSE IF ~StageConfig.found
       THEN Exit(1, "config_error") /\ UNCHANGED engineVars
       ELSE IF ~base
       THEN Exit(1, "precondition") /\ UNCHANGED engineVars
       ELSE IF RepoDirs(dirs) = {}
       THEN Exit(0, "no_items") /\ UNCHANGED engineVars
       ELSE /\ \E repo_dirs \in Perms(RepoDirs(dirs)) : StartPasses(repo_dirs)
            /\ pc' = "first_pass"
            /\ UNCHANGED <<exit_code, ended>>
    /\ UNCHANGED <<ctxVars, gen_script, fsVars>>

\* one iteration of the first pass
PullFirstPass ==
    /\ stage = "pull.py" /\ pc = "first_pass" /\ idx <= Len(items)
    /\ \E env \in PullEnvs :
         LET repo_dir == items[idx]
             r == PullProcessRepository(repo_dir, env, dirs, files)
         IN  /\ files' = r.files
             /\ outcomes' = [outcomes EXCEPT ![idx] = Append(@, r.ret)]
             /\ attempts' = [attempts EXCEPT ![idx] =
                    Append(@, [steps |-> r.steps, wrote |-> r.wrote])]
             /\ LET rec == RecordFirst(r.ret, Basename(repo_dir), repo_dir, idx)
                IN  /\ successful' = rec.successful
                    /\ failed' = rec.failed
                    /\ retry_queue' = rec.retry_queue
                    /\ retry_pos' = rec.retry_pos
    /\ idx' = idx + 1
    /\ UNCHANGED <<ctxVars, gen_script, base, dirs, wc, items,
                   retry_failed, giterrs, pc, exit_code, ended>>

\* `if retry_queue:` taken after the first pass
PullRetryStart ==
    /\ stage = "pull.py" /\ pc = "first_pass" /\ idx > Len(items)
    /\ retry_queue # <<>>
    /\ pc' = "retry_pass"
    /\ idx' = 1
    /\ retry_failed' = <<>>
    /\ UNCHANGED <<ctxVars, gen_script, fsVars, exit_code, ended, items,
                   successful, failed, retry_queue, retry_pos, outcomes, giterrs,
                   attempts>>

\* one iteration of the retry pass
PullRetry ==
    /\ stage = "pull.py" /\ pc = "retry_pass" /\ idx <= Len(retry_queue)
    /\ \E env \in PullEnvs :
         LET repo_dir == retry_queue[idx]
             repo_name == Basename(repo_dir)
             pos == retry_pos[idx]
             r == PullProcessRepository(repo_dir, env, dirs, files)
         IN  /\ files' = r.files
             /\ outcomes' = [outcomes EXCEPT ![pos] = Append(@, r.ret)]
             /\ attempts' = [attempts EXCEPT ![pos] =
                    Append(@, [steps |-> r.steps, wrote |-> r.wrote])]
             /\ LET rec == RecordRetry(r.ret, repo_name)
                IN  /\ successful' = rec.successful
                    /\ failed' = rec.failed
                    /\ retry_failed' = rec.retry_failed
    /\ idx' = idx + 1
    /\ UNCHANGED <<ctxVars, gen_script, base, dirs, wc, items,
                   retry_queue, retry_pos, giterrs, pc, exit_code, ended>>

\* the summary and the exit status
PullSummary ==
    /\ stage = "pull.py"
    /\ \/ pc = "first_pass" /\ idx > Len(items) /\ retry_queue = <<>>
       \/ pc = "retry_pass" /\ idx > Len(retry_queue)
    /\ Exit(SummaryStatus(failed), "summary")
    /\ UNCHANGED <<ctxVars, gen_script, fsVars, engineVars>>

(***************************************************************************)
(* repos.py: main().  The listing of the directory services is the         *)
(* environment's: discover_repositories returns any list of clone links.   *)
(***************************************************************************)
\* ssh://git@h/a/r.git
UrlSsh ==
    <<"s", "s", "h", ":", "/", "/">> \o GitAt \o <<"h", "/", "a", "/", "r">> \o DotGit

\* the SSH clone links a directory service may return
DiscoveredUrls == {UrlARGit, UrlBSGit, UrlSsh}

\* list(dict.fromkeys(repos)): the first occurrences, in order
RECURSIVE Dedup(_)
Dedup(s) ==
    IF s = <<>> THEN <<>>
    ELSE LET r == Dedup(SubSeq(s, 1, Len(s) - 1))
         IN  IF s[Len(s)] \in Range(r) THEN r ELSE Append(r, s[Len(s)])

\* write_repos_yaml's output_config
GeneratedConfig(repos) == Config(TRUE, {"repositories"}, repos, 0, TRUE, <<>>)

(***************************************************************************)
(* repos.py: the listings of the directory services.                       *)
(***************************************************************************)
\* the most pages a listing holds
MaxPages == 2

\* an entry of a listing without a clone link named ssh
NoSsh == <<>>

\* the entries a listing page may hold: name and SSH clone link
RepoR == [name |-> <<"r">>, ssh |-> UrlARGit]
RepoS == [name |-> <<"s">>, ssh |-> UrlBSGit]
RepoT == [name |-> <<"t">>, ssh |-> NoSsh]
RepoU == [name |-> <<"u">>, ssh |-> UrlSsh]
Entries == {RepoR, RepoS, RepoT, RepoU}

\* no repo_pattern, and one that matches the names starting with r
NoPattern == <<>>
PatternR == <<"r">>

\* `repo_pattern and not re.match(repo_pattern, repo_name)` negated, for a
\* pattern without metacharacters: re.match anchors at the start of the name
Matches(repo_pattern, repo_name) ==
    repo_pattern = NoPattern \/ StartsWith(repo_name, repo_pattern)

\* the for loop over data['values']: the SSH links of the entries that pass
\* the filter, in page order
RECURSIVE SshLinks(_, _)
SshLinks(values, repo_pattern) ==
    IF values = <<>> THEN <<>>
    ELSE LET repo == values[1]
             rest == SshLinks(SubSeq(values, 2, Len(values)), repo_pattern)
         IN  IF Matches(repo_pattern, repo.name) /\ repo.ssh # NoSsh
             THEN <<repo.ssh>> \o rest
             ELSE rest

\* a page of a listing: its entries and whether it carries the terminal
\* marker (isLastPage true on the server, no 'next' link on the cloud)
PageSet == [values : SeqsUpTo(Entries, 1), last : BOOLEAN]

\* a listing as the service holds it: its pages, and the request that is
\* answered by an error (0: none); a request past the pages is an error too
Listings ==
    UNION {[pages : {p}, fail_at : 0..Len(p)] : p \in SeqsUpTo(PageSet, MaxPages)}

\* the listings of at most one page
ShortListings == {l \in Listings : Len(l.pages) <= 1}

\* seeded fault: the loop stops after the first page
FetchFirstPageOnly(listing, repo_pattern, k, repos, requests) ==
    IF k = listing.fail_at \/ k > Len(listing.pages)
    THEN [repos |-> repos, requests |-> Append(requests, k), failed |-> TRUE]
    ELSE [repos |-> repos \o SshLinks(listing.pages[k].values, repo_pattern),
          requests |-> Append(requests, k), failed |-> FALSE]

\* the `while True` loop of get_project_repos and get_workspace_repos from
\* request k on: a RequestException ends it with what was collected so far;
\* requests = the pages asked for, in order
RECURSIVE FetchPages(_, _, _, _, _)
FetchPages(listing, repo_pattern, k, repos, requests) ==
    IF k = listing.fail_at \/ k > Len(listing.pages)
    THEN [repos |-> repos, requests |-> Append(requests, k), failed |-> TRUE]
    ELSE LET got == repos \o SshLinks(listing.pages[k].values, repo_pattern)
         IN  IF listing.pages[k].last
             THEN [repos |-> got, requests |-> Append(requests, k),
                   failed |-> FALSE]
             ELSE FetchPages(listing, repo_pattern, k + 1, got,
                             Append(requests, k))

\* BitbucketServerClient.get_project_repos
GetProjectRepos(listing, repo_pattern) ==
    FetchPages(listing, repo_pattern, 1, <<>>, <<>>)

\* BitbucketCloudClient.get_workspace_repos
GetWorkspaceRepos(listing, repo_pattern) ==
    FetchPages(listing, repo_pattern, 1, <<>>, <<>>)

(***************************************************************************)
(* repos.py: discover_repositories.                                        *)
(***************************************************************************)
\* the project key and the workspace name of the configurations
ProjectP == "P"
WorkspaceW == "W"

\* a 'server' or 'cloud' section: whether it is there, where its password
\* comes from ("config": the section, "env": the environment variable,
\* "none": neither), and its project or workspace descriptors
Target(configured, password, descriptors) ==
    [configured |-> configured, password |-> password,
     descriptors |-> descriptors]

NoTarget == Target(FALSE, "none", <<>>)

Descriptor(name, repo_pattern) == [name |-> name, repo_pattern |-> repo_pattern]

\* no 'bitbucket' section, and no service to answer
NoBitbucket == [server |-> NoTarget, cloud |-> NoTarget]
NoListing == [pages |-> <<>>, fail_at |-> 0]
NoNet == [server |-> [P |-> NoListing], cloud |-> [W |-> NoListing]]

\* `cfg.get('password') or os.getenv(...)` is truthy
HasPassword(target) == target.password \in {"config", "env"}

\* the for loop over the descriptors of one target: the links of all
\* listings, and per descriptor the requests made and whether one failed
RECURSIVE ListTarget(_, _, _)
ListTarget(kind, descriptors, listings) ==
    IF descriptors = <<>> THEN [repos |-> <<>>, log |-> <<>>]
    ELSE LET n == Len(descriptors)
             before == ListTarget(kind, SubSeq(descriptors, 1, n - 1), listings)
             d == descriptors[n]
             r == IF kind = "server"
                  THEN GetProjectRepos(listings[d.name], d.repo_pattern)
                  ELSE GetWorkspaceRepos(listings[d.name], d.repo_pattern)
         IN  [repos |-> before.repos \o r.repos,
              log |-> Append(before.log,
                             [kind |-> kind, name |-> d.name,
                              requests |-> r.requests, failed |-> r.failed])]

\* seeded fault: a target without credentials is passed over
DiscoverRepositoriesSkipping(bb, nt) ==
    LET s == IF bb.server.configured /\ HasPassword(bb.server)
             THEN ListTarget("server", bb.server.descriptors, nt.server)
             ELSE [repos |-> <<>>, log |-> <<>>]
        c == IF bb.cloud.configured /\ HasPassword(bb.cloud)
             THEN ListTarget("cloud", bb.cloud.descriptors, nt.cloud)
             ELSE [repos |-> <<>>, log |-> <<>>]
    IN  [repos |-> s.repos \o c.repos, log |-> s.log \o c.log]

\* discover_repositories(config): all_repos, and the log of the listings
\* made; a missing password returns [] on the spot
DiscoverRepositories(bb, nt) ==
    IF bb.server.configured /\ ~HasPassword(bb.server)
    THEN [repos |-> <<>>, log |-> <<>>]
    ELSE LET s == IF bb.server.configured
                  THEN ListTarget("server", bb.server.descriptors, nt.server)
                  ELSE [repos |-> <<>>, log |-> <<>>]
         IN  IF bb.cloud.configured /\ ~HasPassword(bb.cloud)
             THEN [repos |-> <<>>, log |-> s.log]
             ELSE LET c == IF bb.cloud.configured
                           THEN ListTarget("cloud", bb.cloud.descriptors,
                                           nt.cloud)
                           ELSE [repos |-> <<>>, log |-> <<>>]
                  IN  [repos |-> s.repos \o c.repos, log |-> s.log \o c.log]

\* seeded fault: the artifact is written whatever was found
ReposMainAlwaysWrites ==
    /\ stage = "repos.py" /\ pc = "start"
    /\ IF ~StageConfig.found \/ "bitbucket" \notin StageConfig.keys
       THEN Exit(1, "config_error") /\ UNCHANGED gen_script
       ELSE LET repos == DiscoverRepositories(bitbucket, net).repos
            IN  /\ gen_script' = GeneratedConfig(Dedup(repos))
                /\ Exit(0, "completed")
    /\ UNCHANGED <<ctxVars, fsVars, engineVars>>

\* main() of repos.py; written = the open and the dump of repos.yaml succeed
ReposMain ==
    /\ stage = "repos.py" /\ pc = "start"
    /\ IF ~StageConfig.found \/ "bitbucket" \notin StageConfig.keys
       THEN Exit(1, "config_error") /\ UNCHANGED gen_script
       ELSE LET repos == DiscoverRepositories(bitbucket, net).repos
            IN  \E written \in BOOLEAN :
                  IF repos = <<>>
                  THEN Exit(1, "nothing_found") /\ UNCHANGED gen_script
                  ELSE IF ~written
                  THEN Exit(1, "write_error") /\ UNCHANGED gen_script
                  ELSE /\ gen_script' = GeneratedConfig(Dedup(repos))
                       /\ Exit(0, "completed")
    /\ UNCHANGED <<ctxVars, fsVars, engineVars>>

(***************************************************************************)
(* main.py: the orchestrator.                                              *)
(***************************************************************************)
\* the path of the configuration file named on the command line
ConfigYaml == "config.yaml"

\* seeded fault: the override stage is listed before the clone stage
StagesOverrideFirst(disc) ==
    (IF disc THEN <<"repos.py">> ELSE <<>>)
        \o <<"override.py", "clone.py", "pull.py">>

\* main(): the stages list
Stages(disc) ==
    (IF disc THEN <<"repos.py">> ELSE <<>>)
        \o <<"clone.py", "override.py", "pull.py">>

\* main(): stage_config
StageConfigPath(stg, disc) ==
    IF stg = "repos.py" THEN ConfigYaml
    ELSE IF disc THEN ReposYaml ELSE ConfigYaml

\* run_stage: subprocess.run starts the stage script as a new process
OrchRunStage ==
    /\ invocation = "main.py" /\ orch_pc = "loop"
    /\ si <= Len(Stages(discover))
    /\ stage' = Stages(discover)[si]
    /\ arg' = StageConfigPath(Stages(discover)[si], discover)
    /\ started' = Append(started, Stages(discover)[si])
    /\ orch_pc' = "wait"
    /\ pc' = "start" /\ exit_code' = -1 /\ ended' = "running"
    /\ StartPasses(<<>>)
    /\ UNCHANGED <<invocation, discover, config, cwd_is_script, tools, bitbucket, net,
                   gen_script,
                   gen_cwd, si, orch_exit, exits, fsVars>>

\* seeded fault: run_stage's result is not looked at, the loop goes on
OrchStageExitedIgnoringStatus ==
    /\ invocation = "main.py" /\ orch_pc = "wait" /\ pc = "exited"
    /\ orch_pc' = "loop" /\ si' = si + 1
    /\ exits' = Append(exits, exit_code)
    /\ stage' = "none"
    /\ UNCHANGED <<invocation, discover, config, cwd_is_script, tools, bitbucket, net,
                   gen_script,
                   gen_cwd, started, arg, fsVars, pc, exit_code, ended,
                   engineVars, orch_exit>>

\* run_stage returns once the process has exited: True on status 0, False on
\* CalledProcessError; on False main() exits with status 1
OrchStageExited ==
    /\ invocation = "main.py" /\ orch_pc = "wait" /\ pc = "exited"
    /\ IF exit_code = 0
       THEN orch_pc' = "loop" /\ si' = si + 1 /\ UNCHANGED orch_exit
       ELSE orch_pc' = "exited" /\ orch_exit' = 1 /\ UNCHANGED si
    /\ exits' = Append(exits, exit_code)
    /\ stage' = "none"
    /\ UNCHANGED <<invocation, discover, config, cwd_is_script, tools, bitbucket, net,
                   gen_script,
                   gen_cwd, started, arg, fsVars, pc, exit_code, ended,
                   engineVars>>

\* the loop over the stages is over: main() returns
OrchCompleted ==
    /\ invocation = "main.py" /\ orch_pc = "loop"
    /\ si > Len(Stages(discover))
    /\ orch_pc' = "exited" /\ orch_exit' = 0
    /\ UNCHANGED <<invocation, discover, config, cwd_is_script, tools, bitbucket, net,
                   gen_script,
                   gen_cwd, si, started, exits, arg, stage, fsVars, pc,
                   exit_code, ended, engineVars>>

(***************************************************************************)
(* The specification.                                                      *)
(***************************************************************************)
\* the repositories directory before the run: never created, or left by an
\* earlier run that cloned git@h:a/r.git
FreshDisk == base = FALSE /\ dirs = {} /\ wc = {} /\ files = {}
UsedDisk ==
    /\ base = TRUE
    /\ dirs = {<<(<<"a">>)>>, <<(<<"a">>), (<<"r">>)>>}
    /\ wc = {<<(<<"a">>), (<<"r">>)>>}
    /\ files = {<<(<<(<<"a">>), (<<"r">>)>>), MainTf, "remote">>}

\* the repositories directory exists and is empty
EmptyDisk == base = TRUE /\ dirs = {} /\ wc = {} /\ files = {}
\* an earlier run cloned git@h:a/r.git and git@h:b/s.git (the latter holds no
\* Terraform file), and a hidden directory lies beside them
FullDisk ==
    /\ base = TRUE
    /\ dirs = {<<(<<"a">>)>>, <<(<<"a">>), (<<"r">>)>>,
               <<(<<"b">>)>>, <<(<<"b">>), (<<"s">>)>>,
               <<(<<"b">>), (<<"s">>), DotGit>>,
               <<(<<".", "c">>)>>}
    /\ wc = {<<(<<"a">>), (<<"r">>)>>, <<(<<"b">>), (<<"s">>)>>}
    /\ files = {<<(<<(<<"a">>), (<<"r">>)>>), MainTf, "remote">>,
                <<(<<(<<"b">>), (<<"s">>), DotGit>>), XTf, "meta">>}

\* the URLs of a configuration given to main.py
PipelineUrls == {UrlARGit, UrlBSGit, UrlNoColon, UrlHttps}

\* the configuration files a run of main.py may be given
PipelineConfigs ==
    {NoConfig, Config(TRUE, {"bitbucket"}, <<>>, 0, TRUE, <<>>)}
    \cup {Config(TRUE, {"repositories"}, r, 0, TRUE, <<>>) :
              r \in SeqsUpTo(PipelineUrls, MaxPipelineItems)}
    \cup {Config(TRUE, {"repositories", "override_sources"}, r, 0, FALSE, <<>>) :
              r \in SeqsUpTo({UrlARGit}, MaxPipelineItems)}

\* the section of a run with --discover: one server project, no filter, the
\* password in the file
PipelineBitbucket ==
    [server |-> Target(TRUE, "config", <<Descriptor(ProjectP, NoPattern)>>),
     cloud |-> NoTarget]

\* the project's listing: one page of distinct entries with an SSH link
PipelineNets ==
    {[server |-> [P |-> [pages |-> <<[values |-> v, last |-> TRUE]>>,
                         fail_at |-> 0]],
      cloud |-> NoNet.cloud] :
         v \in {w \in SeqsUpTo({RepoR, RepoS, RepoU}, MaxPipelineItems) :
                    \A i, j \in 1..Len(w) : w[i] = w[j] => i = j}}

\* a repos.yaml written by hand in the working directory
OwnReposYaml ==
    Config(TRUE, {"repositories", "rate_limit", "override_sources"},
           <<UrlBSGit>>, 0, TRUE, <<AwsDir>>)

\* both version queries answer
ToolsInstalled == [terraform |-> "ok", git |-> "ok"]

\* a stage script launched by hand
InitStage ==
    /\ \/ /\ invocation = "clone.py"
          /\ config \in CloneConfigs
          /\ FreshDisk \/ UsedDisk
          /\ tools = ToolsInstalled
       \/ /\ invocation = "override.py"
          /\ config \in OverrideConfigs
          /\ FreshDisk \/ EmptyDisk \/ UsedDisk \/ FullDisk
          /\ tools = ToolsInstalled
       \/ /\ invocation = "pull.py"
          /\ config \in {NoConfig, Config(TRUE, {"repositories"}, <<>>, 0, TRUE, <<>>)}
          /\ FreshDisk \/ EmptyDisk \/ UsedDisk \/ FullDisk
          /\ tools \in [terraform : ToolResults, git : ToolResults]
    /\ discover = FALSE /\ cwd_is_script = TRUE
    /\ bitbucket = NoBitbucket /\ net = NoNet
    /\ gen_script = NoConfig /\ gen_cwd = NoConfig
    /\ orch_pc = "none" /\ si = 0 /\ orch_exit = -1
    /\ started = <<>> /\ exits = <<>>
    /\ arg = ConfigYaml
    /\ stage = invocation
    /\ pc = "start"

\* main.py launched, with or without --discover, from the scripts' directory
\* or from another one (which may hold a repos.yaml of its own)
InitPipeline ==
    /\ invocation = "main.py"
    /\ config \in PipelineConfigs
    /\ discover \in BOOLEAN
    /\ cwd_is_script \in BOOLEAN
    /\ tools \in {ToolsInstalled, [terraform |-> "ok", git |-> "timeout"]}
    /\ IF discover /\ config.found /\ "bitbucket" \in config.keys
       THEN /\ bitbucket = PipelineBitbucket
            /\ net \in PipelineNets
       ELSE bitbucket = NoBitbucket /\ net = NoNet
    /\ gen_script = NoConfig
    /\ gen_cwd \in {NoConfig, GeneratedConfig(<<UrlBSGit>>), OwnReposYaml}
    /\ cwd_is_script => gen_cwd = NoConfig
    /\ FreshDisk
    /\ orch_pc = "loop" /\ si = 1 /\ orch_exit = -1
    /\ started = <<>> /\ exits = <<>>
    /\ arg = ConfigYaml
    /\ stage = "none"
    /\ pc = "idle"

\* where the password of a target may come from
Passwords == {"config", "env", "none"}

\* the sections and the services of a run of repos.py: a server with one
\* project, a cloud with one workspace, or both
DiscoveryInputs ==
    \/ /\ bitbucket \in {[server |-> Target(TRUE, pw, <<Descriptor(ProjectP, pat)>>),
                          cloud |-> NoTarget] :
                             pw \in Passwords, pat \in {NoPattern, PatternR}}
       /\ net \in {[server |-> [P |-> l], cloud |-> NoNet.cloud] : l \in Listings}
    \/ /\ bitbucket \in {[server |-> NoTarget,
                          cloud |-> Target(TRUE, pw, <<Descriptor(WorkspaceW, pat)>>)] :
                             pw \in Passwords, pat \in {NoPattern, PatternR}}
       /\ net \in {[server |-> NoNet.server, cloud |-> [W |-> l]] : l \in Listings}
    \/ /\ bitbucket \in {[server |-> Target(TRUE, ps, <<Descriptor(ProjectP, NoPattern)>>),
                          cloud |-> Target(TRUE, pc_, <<Descriptor(WorkspaceW, NoPattern)>>)] :
                             ps \in Passwords, pc_ \in Passwords}
       /\ net \in {[server |-> [P |-> l], cloud |-> [W |-> m]] :
                       l \in ShortListings, m \in ShortListings}

\* repos.py launched by hand
InitDiscovery ==
    /\ invocation = "repos.py"
    /\ \/ /\ config \in {NoConfig, Config(TRUE, {"repositories"}, <<>>, 0, TRUE, <<>>)}
          /\ bitbucket = NoBitbucket /\ net = NoNet
       \/ /\ config = Config(TRUE, {"bitbucket"}, <<>>, 0, TRUE, <<>>)
          /\ DiscoveryInputs
    /\ FreshDisk
    /\ tools = ToolsInstalled
    /\ discover = FALSE /\ cwd_is_script = TRUE
    /\ gen_script = NoConfig /\ gen_cwd = NoConfig
    /\ orch_pc = "none" /\ si = 0 /\ orch_exit = -1
    /\ started = <<>> /\ exits = <<>>
    /\ arg = ConfigYaml
    /\ stage = invocation
    /\ pc = "start"

\* the locals of a process that has not started
NotStarted ==
    /\ exit_code = -1
    /\ ended = "running"
    /\ items = <<>> /\ idx = 1
    /\ successful = <<>> /\ failed = <<>>
    /\ retry_queue = <<>> /\ retry_failed = <<>> /\ retry_pos = <<>>
    /\ outcomes = <<>> /\ giterrs = <<>> /\ attempts = <<>>

Init == InitStage /\ NotStarted

\* the steps of the three stage scripts
NextStage ==
    \/ CloneStart
    \/ CloneFirstPass
    \/ CloneRetryStart
    \/ CloneRetry
    \/ CloneSummary
    \/ OverrideStart
    \/ OverrideFirstPass
    \/ OverrideRetryStart
    \/ OverrideRetry
    \/ OverrideSummary
    \/ PullStart
    \/ PullFirstPass
    \/ PullRetryStart
    \/ PullRetry
    \/ PullSummary

\* a stage script run on its own
Spec == Init /\ [][NextStage]_vars

\* a stage script run on its own, every attempt and every step of main()
\* coming to an end
SpecFair == Init /\ [][NextStage]_vars /\ WF_vars(NextStage)

\* the step of repos.py
NextDiscovery == ReposMain

\* repos.py run on its own
InitRepos == InitDiscovery /\ NotStarted
SpecDiscovery == InitRepos /\ [][NextDiscovery]_vars

\* the steps of a run of main.py
NextPipeline ==
    \/ NextStage
    \/ ReposMain
    \/ OrchRunStage
    \/ OrchStageExited
    \/ OrchCompleted

\* main.py and the stage processes it launches
InitMain == InitPipeline /\ NotStarted
SpecPipeline == InitMain /\ [][NextPipeline]_vars

(***************************************************************************)
(* Vocabulary of the properties.                                           *)
(***************************************************************************)
\* a batch stage (clone, override or pull) is the running process
InBatchStage == stage \in {"clone.py", "override.py", "pull.py"}

\* the positions of the enumerated work items
Positions == 1..Len(items)

\* the name under which the success and failure lists hold the item at
\* position i: the URL, or the directory's basename
ItemName(i) == IF stage = "clone.py" THEN items[i] ELSE Basename(items[i])

\* how many times the enumerated list holds the name x
Listed(x) == Cardinality({i \in Positions : ItemName(i) = x})

\* the item at position i ended in success: at its first or at its second attempt
FinalOk(i) == outcomes[i] \in {<<TRUE>>, <<FALSE, TRUE>>}

\* the item at position i failed both of its attempts
FinalFail(i) == outcomes[i] = <<FALSE, FALSE>>

\* the positions holding the same name as position i that failed twice
TwiceFailedLike(i) == {j \in Positions : ItemName(j) = ItemName(i) /\ FinalFail(j)}

\* the positions holding the same name as position i that ended in success
SucceededLike(i) == {j \in Positions : ItemName(j) = ItemName(i) /\ FinalOk(j)}

\* the stage process has printed its summary and exited
AtSummary == InBatchStage /\ pc = "exited" /\ ended = "summary"

\* the stage process has exited after its configuration was loaded and its
\* preconditions were met
ExitedPastPreconditions ==
    InBatchStage /\ pc = "exited" /\ ended \notin {"config_error", "precondition"}

\* git_url has the form user@host:org/repo[.git]
IsSshForm(git_url) ==
    LET f == Split(git_url, ":")
    IN  /\ Len(f) = 2
        /\ LET uh == Split(f[1], "@")
           IN  Len(uh) = 2 /\ uh[1] # <<>> /\ uh[2] # <<>>
        /\ LET path == IF EndsWith(f[2], DotGit)
                       THEN SubSeq(f[2], 1, Len(f[2]) - Len(DotGit))
                       ELSE f[2]
               parts == Split(path, "/")
           IN  Len(parts) = 2 /\ parts[1] # <<>> /\ parts[2] # <<>>

\* the order of the stages the orchestrator is to follow
StageOrder ==
    (IF discover THEN <<"repos.py">> ELSE <<>>)
        \o <<"clone.py", "override.py", "pull.py">>

(***************************************************************************)
(* C1.  Once its configuration is loaded and its preconditions are met, a  *)
(* clone, override or pull process exits non-zero if and only if its       *)
(* failure list is not empty after the retry pass, and exits 0 exactly     *)
(* when every item ended in the success list.                              *)
(* Violated: clone.py given the URL git@h ends with an uncaught IndexError *)
(* (status 1) while its failure list is empty and no retry pass ran.       *)
(***************************************************************************)
C1_ExitStatusFollowsFailureList ==
    ExitedPastPreconditions =>
        /\ (exit_code # 0) <=> (failed # <<>>)
        /\ (exit_code = 0) <=>
               \A i \in Positions : ItemName(i) \in Range(successful)

(***************************************************************************)
(* C2.  The orchestrator stops at the first stage whose process exits with *)
(* a failure: once a stage has exited non-zero it is the last stage        *)
(* started, the orchestrator has exited with status 1, and no step that    *)
(* follows starts a stage or changes what is on disk.                      *)
(***************************************************************************)
C2_StopsAtFirstFailure ==
    /\ [](\A k \in 1..Len(exits) :
             exits[k] # 0 =>
                 /\ k = Len(exits) /\ k = Len(started)
                 /\ stage = "none"
                 /\ orch_pc = "exited" /\ orch_exit = 1)
    /\ [][(\E k \in 1..Len(exits') : exits'[k] # 0)
              => UNCHANGED <<started, fsVars, gen_script>>]_vars

\* clone has completed, override has failed, the orchestrator is out with 1
\* and the clones are still on disk
C2_Witness ==
    /\ orch_pc = "exited" /\ orch_exit = 1
    /\ started = <<"clone.py", "override.py">>
    /\ exits[1] = 0 /\ exits[2] # 0
    /\ wc # {}

(***************************************************************************)
(* C3.  The orchestrator runs discovery (only with --discover), clone,     *)
(* override, pull in that order, one at a time: what it has started is a   *)
(* prefix of that order, the running stage is the last one started, every  *)
(* stage before it has exited 0, and the orchestrator exits 0 only if      *)
(* every stage ran and exited 0.                                           *)
(***************************************************************************)
C3_StagesInOrder ==
    invocation = "main.py" =>
        /\ \E n \in 0..Len(StageOrder) : started = SubSeq(StageOrder, 1, n)
        /\ ("repos.py" \in Range(started)) => discover
        /\ Len(exits) <= Len(started)
        /\ IF stage = "none"
           THEN Len(exits) = Len(started)
           ELSE /\ Len(exits) = Len(started) - 1
                /\ stage = started[Len(started)]
        /\ \A k \in 1..(Len(started) - 1) : k <= Len(exits) /\ exits[k] = 0
        /\ orch_exit = 0 =>
               /\ started = StageOrder
               /\ Len(exits) = Len(started)
               /\ \A k \in 1..Len(exits) : exits[k] = 0

\* a run with --discover in which all four stages ran and exited 0
C3_Witness ==
    /\ discover /\ orch_pc = "exited" /\ orch_exit = 0
    /\ Len(started) = 4 /\ Len(exits) = 4
    /\ wc # {}

(***************************************************************************)
(* C4 (as stated).  At the end of every stage run, for every input list    *)
(* (duplicates permitted), no work item is in both the success list and    *)
(* the failure list.                                                       *)
(* Violated: clone.py given the same URL twice, both occurrences fail the  *)
(* first pass, one of them succeeds on retry and the other fails again.    *)
(***************************************************************************)
C4_NoItemInBothLists ==
    (InBatchStage /\ pc = "exited") =>
        Range(successful) \cap Range(failed) = {}

(***************************************************************************)
(* C4 (amended).  At the end of every stage run, a work item the input     *)
(* list holds once is not in both lists; at the summary a name is in the   *)
(* success list exactly when one of its occurrences ended in success and   *)
(* in the failure list exactly when one of its occurrences failed twice.   *)
(***************************************************************************)
C4_ListedOnceNotInBoth ==
    /\ (InBatchStage /\ pc = "exited") =>
           \A i \in Positions :
               Listed(ItemName(i)) = 1 =>
                   ~(/\ ItemName(i) \in Range(successful)
                     /\ ItemName(i) \in Range(failed))
    /\ AtSummary =>
           \A i \in Positions :
               /\ ItemName(i) \in Range(successful) <=> SucceededLike(i) # {}
               /\ ItemName(i) \in Range(failed) <=> TwiceFailedLike(i) # {}

\* a summary where an item listed once was moved by the retry pass while
\* another item stayed in the failure list
C4_Witness ==
    /\ AtSummary
    /\ \E i, j \in Positions :
          /\ Listed(ItemName(i)) = 1
          /\ outcomes[i] = <<FALSE, TRUE>>
          /\ FinalFail(j)

(***************************************************************************)
(* C5.  In every stage run that reaches its summary, the sizes of the      *)
(* success list and of the failure list add up to the number of items      *)
(* enumerated.                                                             *)
(***************************************************************************)
C5_ListsAddUp ==
    AtSummary => Len(successful) + Len(failed) = Len(items)

\* a summary after a retry pass, with an entry in each list
C5_Witness ==
    /\ AtSummary
    /\ Len(items) = 2 /\ Len(successful) = 1 /\ Len(failed) = 1
    /\ retry_queue # <<>>

C8_AtMostOneRetry ==
    InBatchStage =>
        /\ \A i \in DOMAIN outcomes :
               /\ Len(outcomes[i]) <= 2
               /\ Len(outcomes[i]) = 2 => outcomes[i][1] = FALSE
        /\ Len(retry_queue) =
               Cardinality({i \in DOMAIN outcomes :
                                Len(outcomes[i]) >= 1 /\ ~outcomes[i][1]})
        /\ \A k \in 1..Len(retry_queue) : retry_queue[k] = items[retry_pos[k]]
        /\ AtSummary =>
               \A i \in Positions :
                   /\ Len(outcomes[i]) >= 1
                   /\ Len(outcomes[i]) = IF outcomes[i][1] THEN 1 ELSE 2

\* a summary where one item was attempted once and another twice
C8_Witness ==
    /\ AtSummary
    /\ \E i, j \in Positions : Len(outcomes[i]) = 1 /\ Len(outcomes[j]) = 2

(***************************************************************************)
(* C9.  In the clone stage a URL that is not of the form                   *)
(* user@host:org/repo[.git] is a failure of that item only: no exception   *)
(* leaves the processing of an item, the stage does not abort, and at the  *)
(* summary every URL has been attempted and the malformed ones failed.     *)
(* Violated: the URL git@h makes extract_repo_info raise IndexError        *)
(* outside clone_repository's try block, which ends the process.           *)
(***************************************************************************)
C9_MalformedUrlFailsAlone ==
    stage = "clone.py" =>
        /\ ended # "exception"
        /\ pc = "exited" /\ ended \notin {"config_error"} =>
               \A i \in Positions :
                   /\ Len(outcomes[i]) >= 1
                   /\ ~IsSshForm(items[i]) => outcomes[i][1] = FALSE

(***************************************************************************)
(* C10.  In the clone stage, whenever the git client raises during the     *)
(* clone, fetch or sparse-checkout of an item, that attempt is a failure   *)
(* of the item, which is retried: at the summary an item whose first       *)
(* attempt met a git error has been attempted twice.                       *)
(* Violated: clone_repo and set_sparse_checkout catch the error and only   *)
(* print it, so clone_repository returns True.                             *)
(***************************************************************************)
C10_GitErrorIsRetried ==
    stage = "clone.py" =>
        \A i \in DOMAIN giterrs :
            /\ \A k \in 1..Len(giterrs[i]) :
                   giterrs[i][k] => outcomes[i][k] = FALSE
            /\ (AtSummary /\ giterrs[i][1]) => Len(outcomes[i]) = 2

(***************************************************************************)
(* C11.  In the clone stage, an attempt that finds a working copy at the   *)
(* path computed from the URL goes through the update path (update_repo:   *)
(* fetch, fast-forward, checkout, hard reset) and not through a fresh      *)
(* clone, and a fresh clone is made only where no working copy is there.   *)
(* Violated: clone_repository always calls clone_repo; update_repo is      *)
(* called from nowhere, so a second run clones into the existing copy,     *)
(* git refuses, and the copy is left as it was.                            *)
(***************************************************************************)
C11_ExistingCopyIsUpdated ==
    stage = "clone.py" =>
        \A i \in DOMAIN attempts :
            \A k \in 1..Len(attempts[i]) :
                LET a == attempts[i][k]
                IN  a.calls # <<>> =>
                        IF a.existed
                        THEN /\ "update_repo" \in Range(a.calls)
                             /\ "clone_repo" \notin Range(a.calls)
                        ELSE /\ "clone_repo" \in Range(a.calls)
                             /\ "update_repo" \notin Range(a.calls)

\* the orchestrator has seen the stage script stg exit with status 0
StageSucceeded(stg) ==
    \E k \in 1..Len(exits) : started[k] = stg /\ exits[k] = 0

\* the override stage of this run of main.py has just exited with status 0
OverrideJustSucceeded ==
    /\ invocation = "main.py"
    /\ started # <<>> /\ started[Len(started)] = "override.py"
    /\ Len(exits) = Len(started) /\ exits[Len(exits)] = 0

\* the names of the override files found in the configured source directories
OverrideFileNames(override_sources) ==
    IF ~override_sources.is_list THEN {}
    ELSE UNION {{f[1] : f \in FindTfFiles(override_sources.list[i])} :
                    i \in 1..Len(override_sources.list)}

(***************************************************************************)
(* C12.  After the clone stage followed by the override stage (both with   *)
(* status 0, no copy having failed), every working copy the clone stage    *)
(* created at repos/<project>/<repository> holds in its root every         *)
(* override file found in the configured source directories.               *)
(* Violated: override.py takes the entries of repos/ for the working       *)
(* copies, which are the project directories: the files land in            *)
(* repos/<project>, one level above the working copy.                      *)
(***************************************************************************)
C12_ClonesHoldOverrides ==
    (/\ OverrideJustSucceeded
     /\ \A i \in DOMAIN attempts :
            \A k \in 1..Len(attempts[i]) : attempts[i][k].not_copied = {})
        => \A path \in wc :
               \A name \in OverrideFileNames(GetOverrideSources(StageConfig)) :
                   \E f \in files : f[1] = path /\ f[2] = name

(***************************************************************************)
(* C13.  After clone, override and pull have all run with status 0, every  *)
(* working copy created by the clone stage that holds Terraform files has  *)
(* terraform.tfstate in its own root, repos/<project>/<repository>.        *)
(* Violated: pull.py takes the entries of repos/ for the working copies,   *)
(* runs terraform in repos/<project> and writes the state file there.      *)
(***************************************************************************)
C13_StateFileInWorkingCopy ==
    (invocation = "main.py" /\ orch_pc = "exited" /\ orch_exit = 0) =>
        \A path \in wc :
            HasTerraformFiles(path, files) =>
                \E f \in files : f[1] = path /\ f[2] = TfState

(***************************************************************************)
(* C14.  When main.py is run with --discover, the configuration read by    *)
(* clone, override and pull is the file the discovery stage wrote in that  *)
(* run, so the clone stage's work items are the URLs discovery emitted.    *)
(* Violated: repos.py writes <script_dir>/repos.yaml, but the stages are   *)
(* given the relative path repos.yaml, which they open in the working      *)
(* directory: run from elsewhere they read no file, or another one.        *)
(***************************************************************************)
C14_StagesReadDiscoveryArtifact ==
    (invocation = "main.py" /\ discover /\ InBatchStage) =>
        /\ gen_script.found
        /\ StageConfig = gen_script
        /\ (stage = "clone.py" /\ pc # "start" /\ ended # "config_error") =>
               items = gen_script.repositories

(***************************************************************************)
(* C15.  In the override stage a failure to copy an override file into a   *)
(* working copy fails that attempt of the item, which is then retried      *)
(* once; if a copy fails in the retry too the stage exits non-zero.        *)
(* Violated: copy_override_files catches the error of each copy and only   *)
(* logs it, so process_repository returns True.                            *)
(***************************************************************************)
C15_CopyFailureFailsItem ==
    stage = "override.py" =>
        \A i \in DOMAIN attempts :
            /\ \A k \in 1..Len(attempts[i]) :
                   attempts[i][k].not_copied # {} => outcomes[i][k] = FALSE
            /\ (AtSummary /\ attempts[i][1].not_copied # {}) =>
                   Len(attempts[i]) = 2
            /\ (/\ AtSummary
                /\ \A k \in 1..Len(attempts[i]) : attempts[i][k].not_copied # {})
                   => exit_code # 0

\* the content of the file `name` of the source directory dir
SourceContent(dir, name) == (CHOOSE f \in SourceTree(dir) : f[1] = name)[2]

\* the places in the configured list of the source directories that hold a
\* .tf file `name` whose copy did not raise in the attempt a
CopiedFrom(list, name, a) ==
    {j \in 1..Len(list) :
        /\ \E f \in FindTfFiles(list[j]) : f[1] = name
        /\ <<list[j], name>> \notin a.not_copied}

\* the greatest element of a non-empty set of numbers
Last(S) == CHOOSE j \in S : \A k \in S : k <= j

(***************************************************************************)
(* C16.  In the override stage, after a working copy is processed, its     *)
(* file of each name found in the source directories has the content of    *)
(* the last source directory, in configured order, that holds it (of the   *)
(* last one whose copy went through, if a copy raised); a source directory *)
(* that does not exist contributes no file and does not fail the item: an  *)
(* existing working copy given a list of sources always succeeds, and a    *)
(* step that finds no override file leaves the files as they are.          *)
(***************************************************************************)
C16_LastSourceWins ==
    /\ [](stage = "override.py" /\ GetOverrideSources(StageConfig).is_list =>
            \A i \in DOMAIN attempts :
                Len(attempts[i]) >= 1 =>
                    /\ outcomes[i] = <<TRUE>>
                    /\ \A name \in OverrideFileNames(GetOverrideSources(StageConfig)) :
                         LET list == GetOverrideSources(StageConfig).list
                             from == CopiedFrom(list, name, attempts[i][1])
                         IN  from # {} =>
                                 \A f \in files :
                                     (f[1] = items[i] /\ f[2] = name) <=>
                                         f = <<items[i], name,
                                               SourceContent(list[Last(from)], name)>>)
    /\ [][(/\ stage = "override.py"
           /\ GetOverrideSources(StageConfig).is_list
           /\ OverrideFileNames(GetOverrideSources(StageConfig)) = {})
              => files' = files]_vars

\* a working copy was given x.tf from the k8s directory and then from the
\* aws directory, configured in that order, and holds the latter's
C16_Witness ==
    /\ stage = "override.py"
    /\ GetOverrideSources(StageConfig).is_list
    /\ GetOverrideSources(StageConfig).list = <<K8sDir, AwsDir>>
    /\ \E i \in DOMAIN attempts :
          /\ Len(attempts[i]) = 1 /\ attempts[i][1].not_copied = {}
          /\ <<items[i], XTf, "aws">> \in files

\* override.py has exited, its configuration loaded, with no working-copy
\* directory under repos/
OverrideExitedWithoutCopies ==
    /\ stage = "override.py" /\ pc = "exited"
    /\ StageConfig.found
    /\ RepoDirs(dirs) = {}

(***************************************************************************)
(* C17 (as stated).  The override stage, given zero existing working-copy  *)
(* directories, exits 0 as a no-op: no item is attempted and no failure is *)
(* reported.                                                               *)
(* Violated: where the directory repos/ itself does not exist, override.py *)
(* logs "Please run clone.py first" and exits 1.                           *)
(***************************************************************************)
C17_NoWorkingCopiesIsNoOp ==
    OverrideExitedWithoutCopies =>
        /\ exit_code = 0
        /\ items = <<>> /\ attempts = <<>>
        /\ successful = <<>> /\ failed = <<>>

(***************************************************************************)
(* C17 (amended).  The override stage, given an existing base directory    *)
(* that holds no working-copy directory, exits 0 as a no-op; given no base *)
(* directory it exits 1; in both cases no item is attempted, no failure is *)
(* listed and nothing on disk is changed.                                  *)
(***************************************************************************)
C17_EmptyBaseIsNoOp ==
    /\ [](OverrideExitedWithoutCopies =>
            /\ items = <<>> /\ attempts = <<>>
            /\ successful = <<>> /\ failed = <<>>
            /\ IF base
               THEN exit_code = 0 /\ ended = "no_items"
               ELSE exit_code = 1 /\ ended = "precondition")
    /\ [][(stage = "override.py" /\ RepoDirs(dirs) = {})
              => UNCHANGED fsVars]_vars

\* override.py has exited 0 on an existing, empty repos/
C17_Witness ==
    OverrideExitedWithoutCopies /\ base /\ exit_code = 0

\* the file f lies in a version-control metadata directory below directory d
InMetadata(d, f) ==
    \E k \in (Len(d) + 1)..Len(f[1]) : f[1][k] = DotGit

\* the directory d holds no .tf file outside version-control metadata
NoTerraformFile(d) ==
    \A f \in files :
        (InTree(d, f[1]) /\ EndsWith(f[2], DotTf)) => InMetadata(d, f)

(***************************************************************************)
(* C18.  In the pull stage, a working copy with no .tf file anywhere       *)
(* outside version-control metadata directories is skipped: its one        *)
(* attempt runs neither terraform init nor terraform state pull and writes *)
(* no state file, it is counted in the success list and it is not put in   *)
(* the retry queue.                                                        *)
(***************************************************************************)
C18_NoTerraformFilesSkipped ==
    stage = "pull.py" =>
        \A i \in DOMAIN attempts :
            (Len(attempts[i]) >= 1 /\ NoTerraformFile(items[i])) =>
                /\ attempts[i] = <<[steps |-> <<>>, wrote |-> FALSE]>>
                /\ outcomes[i] = <<TRUE>>
                /\ Basename(items[i]) \in Range(successful)
                /\ Basename(items[i]) \notin Range(failed)
                /\ items[i] \notin Range(retry_queue)
                /\ \A f \in files : ~(f[1] = items[i] /\ f[2] = TfState)

\* a directory whose only .tf file lies under .git was attempted and skipped
C18_Witness ==
    /\ stage = "pull.py"
    /\ \E i \in DOMAIN attempts :
          /\ Len(attempts[i]) = 1 /\ attempts[i][1].steps = <<>>
          /\ outcomes[i] = <<TRUE>>
          /\ \E f \in files :
                InTree(items[i], f[1]) /\ EndsWith(f[2], DotTf)
                    /\ InMetadata(items[i], f)

\* a tool is unavailable: its version query does not answer with status 0
\* in time
ToolUnavailable ==
    tools.terraform \in {"missing", "nonzero", "timeout"}
        \/ tools.git \in {"missing", "nonzero", "timeout"}

(***************************************************************************)
(* C19.  In the pull stage the availability of terraform and of git is     *)
(* checked before any item is processed: if either is unavailable          *)
(* (missing, failing or timing out on its version query) the process has   *)
(* exited with status 1 as soon as it has left its start, with no item     *)
(* enumerated or attempted, and no step of the stage changes the disk.     *)
(***************************************************************************)
C19_PrerequisitesFirst ==
    /\ []((stage = "pull.py" /\ ToolUnavailable) =>
            /\ pc \in {"start", "exited"}
            /\ pc = "exited" => exit_code = 1 /\ ended = "precondition"
            /\ items = <<>> /\ attempts = <<>> /\ outcomes = <<>>
            /\ successful = <<>> /\ failed = <<>>)
    /\ [][(stage = "pull.py" /\ ToolUnavailable) => UNCHANGED fsVars]_vars

\* git does not answer in time, working copies with Terraform files are
\* there, and pull.py has exited 1
C19_Witness ==
    /\ stage = "pull.py" /\ pc = "exited" /\ exit_code = 1
    /\ tools = [terraform |-> "ok", git |-> "timeout"]
    /\ StageConfig.found /\ base
    /\ \E d \in RepoDirs(dirs) : HasTerraformFiles(d, files)

\* an environment in which terraform init succeeds, terraform state pull
\* completes (with whatever status and output) and the file can be written
ExportCompletes(env) ==
    env.init = "ok" /\ env.pull \in {"ok", "nonzero"} /\ env.write = "ok"

(***************************************************************************)
(* C20.  In the pull stage, for a directory with Terraform files whose     *)
(* terraform init succeeded, whenever terraform state pull completes,      *)
(* whatever its exit status and whatever its output (empty included), the  *)
(* output is written to terraform.tfstate in the directory being processed *)
(* (the file being writable) and the attempt is a success; an attempt that *)
(* wrote the file is the item's last, and the item is in the success list  *)
(* and not in the retry queue after it.                                    *)
(***************************************************************************)
C20_ExportOutputIsKept ==
    stage = "pull.py" =>
        /\ \A i \in Positions :
               (items[i] \in dirs /\ ~NoTerraformFile(items[i])) =>
                   \A env \in PullEnvs :
                       ExportCompletes(env) =>
                           LET r == PullProcessRepository(items[i], env,
                                                          dirs, files)
                           IN  /\ r.ret /\ r.wrote
                               /\ r.status = env.pull
                               /\ r.steps = <<"init", "pull">>
                               /\ \A f \in r.files :
                                      (f[1] = items[i] /\ f[2] = TfState) <=>
                                          f = <<items[i], TfState, env.out>>
        /\ \A i \in DOMAIN attempts :
               \A k \in 1..Len(attempts[i]) :
                   attempts[i][k].wrote =>
                       /\ attempts[i][k].steps = <<"init", "pull">>
                       /\ outcomes[i][k] = TRUE
                       /\ k = Len(attempts[i])
                       /\ Basename(items[i]) \in Range(successful)
                       /\ Basename(items[i]) \notin Range(failed)
                       /\ (k = 1 => items[i] \notin Range(retry_queue))
                       /\ \E f \in files : f[1] = items[i] /\ f[2] = TfState

\* the stage ended with status 0 after an empty output was written as the
\* state file of a directory at its first attempt
C20_Witness ==
    /\ stage = "pull.py" /\ AtSummary /\ exit_code = 0
    /\ \E i \in DOMAIN attempts :
          /\ attempts[i] = <<[steps |-> <<"init", "pull">>, wrote |-> TRUE]>>
          /\ <<items[i], TfState, "">> \in files

(***************************************************************************)
(* C21                                                                     *)
(***************************************************************************)
\* the directories of the pull stage that hold Terraform files
Processable == {i \in Positions : items[i] \in dirs /\ ~NoTerraformFile(items[i])}

\* the outcome of one attempt on items[i] under env
PullOutcome(i, env) == PullProcessRepository(items[i], env, dirs, files).ret

\* C21 as stated: in the pull stage, for `terraform init` and for
\* `terraform state pull` alike, a command that times out gives the item the
\* same outcome as the command ending with a non-zero status.
C21_TimeoutLikeFailure ==
    stage = "pull.py" =>
        \A i \in Processable : \A env \in PullEnvs :
            /\ PullOutcome(i, [env EXCEPT !.init = "timeout"])
                   = PullOutcome(i, [env EXCEPT !.init = "nonzero"])
            /\ PullOutcome(i, [env EXCEPT !.pull = "timeout"])
                   = PullOutcome(i, [env EXCEPT !.pull = "nonzero"])

\* C21 amended: a timeout of `terraform init` gives the same result as its
\* non-zero status (the item fails, the export is not run, nothing is
\* written); a timeout of `terraform state pull` fails the item and writes
\* nothing, whereas its non-zero status does not fail the item: the output is
\* written and the item succeeds when the state file can be written.
C21_TimeoutFailsTheItem ==
    stage = "pull.py" =>
        /\ \A i \in Processable : \A env \in PullEnvs :
               LET run(e) == PullProcessRepository(items[i], e, dirs, files)
                   it == run([env EXCEPT !.init = "timeout"])
                   in == run([env EXCEPT !.init = "nonzero"])
                   pt == run([env EXCEPT !.init = "ok", !.pull = "timeout"])
                   pn == run([env EXCEPT !.init = "ok", !.pull = "nonzero"])
               IN  /\ it = in
                   /\ ~it.ret /\ it.steps = <<"init">> /\ it.files = files
                   /\ ~pt.ret /\ ~pt.wrote /\ pt.files = files
                   /\ pt.steps = <<"init", "pull">>
                   /\ pn.ret = (env.write = "ok")
                   /\ pn.wrote = (env.write = "ok")
        /\ \A i \in DOMAIN attempts :
               \A k \in 1..Len(attempts[i]) :
                   ~attempts[i][k].wrote /\ attempts[i][k].steps # <<>>
                       => outcomes[i][k] = FALSE

\* a directory with Terraform files failed twice on `terraform init` and the
\* stage ended with status 1
C21_Witness ==
    /\ stage = "pull.py" /\ AtSummary /\ exit_code = 1
    /\ \E i \in DOMAIN attempts :
          /\ i \in Processable
          /\ attempts[i] = <<[steps |-> <<"init">>, wrote |-> FALSE],
                             [steps |-> <<"init">>, wrote |-> FALSE]>>
          /\ outcomes[i] = <<FALSE, FALSE>>

(***************************************************************************)
(* C22                                                                     *)
(***************************************************************************)
\* repos.py has exited after reading a configuration with a bitbucket section
DiscoveryRan ==
    /\ stage = "repos.py" /\ pc = "exited"
    /\ config.found /\ "bitbucket" \in config.keys

\* a target that is configured and has its password
Usable(target) == target.configured /\ target.password # "none"

\* the links a target contributes when it is queried
LinksOf(kind) ==
    IF Usable(bitbucket[kind])
    THEN ListTarget(kind, bitbucket[kind].descriptors, net[kind]).repos
    ELSE <<>>

\* the listings made by the run
DiscoveryLog == DiscoverRepositories(bitbucket, net).log

\* C22: when the credentials of one configured target are absent, only that
\* target contributes nothing: the other one is still queried and its links
\* are kept, so that the run ends as it would with that other target alone.
C22_MissingCredentialsSkipOneTarget ==
    DiscoveryRan =>
        /\ \A kind \in {"server", "cloud"} :
               Usable(bitbucket[kind]) =>
                   \A i \in 1..Len(bitbucket[kind].descriptors) :
                       \E e \in Range(DiscoveryLog) :
                           /\ e.kind = kind
                           /\ e.name = bitbucket[kind].descriptors[i].name
        /\ (LinksOf("server") \o LinksOf("cloud") # <<>>)
               => ended \in {"completed", "write_error"}
        /\ ended = "completed" =>
               /\ Range(gen_script.repositories)
                      = Range(LinksOf("server") \o LinksOf("cloud"))

(***************************************************************************)
(* C23                                                                     *)
(***************************************************************************)
\* the number of links the listings of the run returned, all targets together
Discovered == Len(DiscoverRepositories(bitbucket, net).repos)

Paginated(listing) ==
    /\ listing.fail_at = 0
    /\ Len(listing.pages) >= 1
    /\ \A k \in 1..Len(listing.pages) :
           listing.pages[k].last <=> k = Len(listing.pages)

\* every configured target has its password and a paginated listing for
\* each of its descriptors
AllPaginated ==
    \A kind \in {"server", "cloud"} :
        bitbucket[kind].configured =>
            /\ bitbucket[kind].password # "none"
            /\ \A i \in 1..Len(bitbucket[kind].descriptors) :
                   Paginated(net[kind][bitbucket[kind].descriptors[i].name])

\* the entries of all pages of a listing, in page order
RECURSIVE Flat(_)
Flat(pages) ==
    IF pages = <<>> THEN <<>>
    ELSE pages[1].values \o Flat(SubSeq(pages, 2, Len(pages)))

\* the entries of all listings of the run that pass their filter and have
\* an SSH link, server first (one descriptor per target)
Wanted ==
    LET of(kind) ==
            IF bitbucket[kind].configured
            THEN LET d == bitbucket[kind].descriptors[1]
                     all == Flat(net[kind][d.name].pages)
                 IN  [i \in 1..Len(all) |->
                        IF (d.repo_pattern = <<>>
                               \/ (all[i].name # <<>>
                                     /\ all[i].name[1] = d.repo_pattern[1]))
                              /\ all[i].ssh # <<>>
                        THEN all[i].ssh ELSE <<>>]
            ELSE <<>>
    IN  of("server") \o of("cloud")

\* the position at which link x is first seen
FirstSeen(x) == CHOOSE i \in 1..Len(Wanted) :
                    Wanted[i] = x /\ \A j \in 1..(i - 1) : Wanted[j] # x

\* C24: when every listing comes in pages with the terminal marker on the
\* last page, each page is requested exactly once, in order, and the list
\* persisted holds every matching entry with an SSH link, of all pages,
\* exactly once and in first-seen order.
C24_AllPagesOnceInOrder ==
    (DiscoveryRan /\ AllPaginated) =>
        /\ \A kind \in {"server", "cloud"} :
               bitbucket[kind].configured =>
                   \E e \in Range(DiscoveryLog) :
                       /\ e.kind = kind
                       /\ e.name = bitbucket[kind].descriptors[1].name
                       /\ ~e.failed
                       /\ e.requests =
                              [k \in 1..Len(net[kind][e.name].pages) |-> k]
        /\ Len(DiscoveryLog)
               = Cardinality({kind \in {"server", "cloud"} :
                                 bitbucket[kind].configured})
        /\ (\E i \in 1..Len(Wanted) : Wanted[i] # <<>>)
               => ended \in {"completed", "write_error"}
        /\ ended = "completed" =>
               LET kept == gen_script.repositories
               IN  /\ Range(kept) = Range(Wanted) \ {<<>>}
                   /\ \A i, j \in 1..Len(kept) :
                          i < j => FirstSeen(kept[i]) < FirstSeen(kept[j])

\* a server listing of two pages with the same link on both, read with a
\* filter: the list persisted holds the link once
C24_Witness ==
    /\ DiscoveryRan /\ AllPaginated /\ ended = "completed"
    /\ bitbucket.server.configured /\ ~bitbucket.cloud.configured
    /\ bitbucket.server.descriptors[1].repo_pattern = PatternR
    /\ net.server.P.pages = <<[values |-> <<RepoR>>, last |-> FALSE],
                              [values |-> <<RepoR>>, last |-> TRUE]>>
    /\ gen_script.repositories = <<UrlARGit>>

\* a cloud listing of two pages with a different link on each
C24_WitnessCloud ==
    /\ DiscoveryRan /\ AllPaginated /\ ended = "completed"
    /\ bitbucket.cloud.configured
    /\ net.cloud.W.pages = <<[values |-> <<RepoS>>, last |-> FALSE],
                             [values |-> <<RepoR>>, last |-> TRUE]>>
    /\ gen_script.repositories = <<UrlBSGit, UrlARGit>>

(***************************************************************************)
(* C25                                                                     *)
(***************************************************************************)
\* C25: discovery follows the batch-with-retry pattern: a project or
\* workspace whose listing fails is listed exactly once more, and the stage
\* reports failure when that listing fails again (a service answers the
\* same request the same way within a run).
C25_FailedListingIsRetried ==
    DiscoveryRan =>
        \A e \in Range(DiscoveryLog) :
            e.failed =>
                /\ Cardinality({i \in 1..Len(DiscoveryLog) :
                                   /\ DiscoveryLog[i].kind = e.kind
                                   /\ DiscoveryLog[i].name = e.name}) = 2
                /\ exit_code # 0

(***************************************************************************)
(* C26                                                                     *)
(***************************************************************************)
\* the number of attempts made so far on the item at position i
Tried(i) == Len(outcomes[i])

\* the positions whose first attempt failed
FirstFailed == {i \in Positions : Tried(i) >= 1 /\ outcomes[i][1] = FALSE}

\* the position the next attempt of the run must be made on: the first one
\* not attempted yet, and once all are attempted the first one that failed
\* and was not retried (0: none)
NextInOrder ==
    IF \E i \in Positions : Tried(i) = 0
    THEN CHOOSE i \in Positions :
             Tried(i) = 0 /\ \A j \in 1..(i - 1) : Tried(j) >= 1
    ELSE IF \E i \in FirstFailed : Tried(i) = 1
    THEN CHOOSE i \in FirstFailed :
             Tried(i) = 1 /\ \A j \in FirstFailed : j < i => Tried(j) = 2
    ELSE 0

\* C26: in every stage run no retry is made before every item had its first
\* attempt; the first attempts are made in input order and the retries in
\* the order the failed items have in the input.
C26_AttemptsInOrder ==
    /\ [](InBatchStage =>
            /\ \A i, j \in Positions :
                   /\ Tried(i) = 2 => Tried(j) >= 1
                   /\ (i < j /\ Tried(j) >= 1) => Tried(i) >= 1
                   /\ (i < j /\ i \in FirstFailed /\ Tried(j) = 2) => Tried(i) = 2
            /\ \A i \in Positions : Tried(i) = 2 => i \in FirstFailed)
    /\ [][(InBatchStage /\ items' = items) =>
            \A i \in Positions :
                outcomes'[i] # outcomes[i] =>
                    /\ i = NextInOrder
                    /\ Len(outcomes'[i]) = Tried(i) + 1
                    /\ \A j \in Positions \ {i} : outcomes'[j] = outcomes[j]]_vars

\* two items failed their first attempt and both were retried
C26_Witness ==
    /\ AtSummary
    /\ Len(items) = 2
    /\ Tried(1) = 2 /\ Tried(2) = 2
    /\ retry_pos = <<1, 2>>

(***************************************************************************)
(* C27                                                                     *)
(***************************************************************************)
\* the rate limit the clone stage runs with
CloneRateLimit ==
    IF "rate_limit" \in StageConfig.keys THEN StageConfig.rate_limit ELSE 1

\* the attempt, as <<position, number>>, after which the run made no other
LastAttempt ==
    IF retry_pos # <<>> /\ Tried(retry_pos[Len(retry_pos)]) = 2
    THEN <<retry_pos[Len(retry_pos)], 2>>
    ELSE <<Len(items), 1>>

\* C27: in the clone stage, with a positive rate limit a delay takes place
\* between any two successive item attempts, of the first pass and of the
\* retry pass alike and whatever the outcome of the earlier one; with a
\* rate limit that is not positive no delay takes place.
C27_DelayBetweenAttempts ==
    (stage = "clone.py" /\ AtSummary) =>
        \A i \in Positions : \A k \in 1..Len(attempts[i]) :
            IF CloneRateLimit > 0
            THEN <<i, k>> # LastAttempt => attempts[i][k].slept
            ELSE ~attempts[i][k].slept

(***************************************************************************)
(* C28                                                                     *)
(***************************************************************************)
\* C28: in the pull stage the export is invoked, within one attempt, only
\* after the initialisation of that attempt succeeded; when the
\* initialisation fails or times out the item is marked failed without the
\* export being invoked and without a state file being written, and the item
\* is retried once.
C28_ExportOnlyAfterInit ==
    stage = "pull.py" =>
        /\ \A i \in Processable : \A env \in PullEnvs :
               LET r == PullProcessRepository(items[i], env, dirs, files)
               IN  /\ r.steps \in {<<"init">>, <<"init", "pull">>}
                   /\ r.steps = <<"init", "pull">> <=> env.init = "ok"
                   /\ env.init # "ok" =>
                          ~r.ret /\ ~r.wrote /\ r.files = files
        /\ \A i \in DOMAIN attempts :
               \A k \in 1..Len(attempts[i]) :
                   attempts[i][k].steps = <<"init">> =>
                       /\ outcomes[i][k] = FALSE
                       /\ ~attempts[i][k].wrote
                       /\ k = 1 =>
                              /\ \E q \in 1..Len(retry_pos) :
                                     retry_pos[q] = i /\ retry_queue[q] = items[i]
                              /\ Cardinality({q \in 1..Len(retry_pos) :
                                                 retry_pos[q] = i}) = 1
                              /\ AtSummary => Len(attempts[i]) = 2
                       /\ (k = 2 /\ AtSummary) =>
                              Basename(items[i]) \in Range(failed)

\* a directory failed on `terraform init`, was retried, and its state was
\* exported and written by the second attempt
C28_Witness ==
    /\ stage = "pull.py" /\ AtSummary
    /\ \E i \in DOMAIN attempts :
          /\ attempts[i] = <<[steps |-> <<"init">>, wrote |-> FALSE],
                             [steps |-> <<"init", "pull">>, wrote |-> TRUE]>>
          /\ outcomes[i] = <<FALSE, TRUE>>

(***************************************************************************)
(* C29                                                                     *)
(***************************************************************************)
\* git_url does not begin with git@
NotGitAt(git_url) ==
    Len(git_url) < 4 \/ SubSeq(git_url, 1, 4) # <<"g", "i", "t", "@">>

\* the configuration file the clone stage of the run reads
CloneInput ==
    IF ~discover THEN config
    ELSE IF cwd_is_script THEN gen_script
    ELSE gen_cwd

\* the clone stage's process has been launched by the orchestrator and the
\* list it reads holds a URL that does not begin with git@
CloneGivenUnparsableUrl ==
    /\ "clone.py" \in Range(started)
    /\ CloneInput.found /\ "repositories" \in CloneInput.keys
    /\ \E i \in 1..Len(CloneInput.repositories) :
           NotGitAt(CloneInput.repositories[i])

\* C29: a URL that does not begin with git@ fails to parse at its first
\* attempt and again at its retry, so the clone stage given such a URL
\* exits non-zero whatever happens to the other URLs, and the orchestrator
\* then starts neither the override stage nor the pull stage.
C29_UnparsableUrlStopsPipeline ==
    /\ stage = "clone.py" =>
           /\ \A i \in Positions :
                  NotGitAt(items[i]) =>
                      /\ \A k \in 1..Tried(i) :
                             /\ outcomes[i][k] = FALSE
                             /\ attempts[i][k].calls = <<>>
                      /\ AtSummary =>
                             /\ Tried(i) = 2
                             /\ items[i] \in Range(failed)
           /\ (pc = "exited" /\ \E i \in Positions : NotGitAt(items[i]))
                  => exit_code # 0
    /\ CloneGivenUnparsableUrl =>
           /\ "override.py" \notin Range(started)
           /\ "pull.py" \notin Range(started)
           /\ stage = "none" => orch_pc = "exited" /\ orch_exit = 1
           /\ stage = "clone.py" /\ pc = "exited" => exit_code # 0

\* the orchestrator has exited with status 1 after a clone stage in which
\* a URL without git@ failed twice while the other URL was cloned
C29_Witness ==
    /\ orch_pc = "exited" /\ orch_exit = 1
    /\ ~discover
    /\ CloneGivenUnparsableUrl
    /\ started = <<"clone.py">>
    /\ Len(items) = 2
    /\ NotGitAt(items[1]) /\ outcomes[1] = <<FALSE, FALSE>>
    /\ outcomes[2] = <<TRUE>>

(***************************************************************************)
(* C30                                                                     *)
(***************************************************************************)
\* C30: in a run with --discover the clone, override and pull stages are
\* given the generated artifact, which holds nothing but the repositories
\* list; so the clone stage runs with the default rate limit (0.1 s) and
\* the override stage with the two default source directories, whatever
\* the configuration file of the run says.
C30_DiscoverRunsUseDefaults ==
    (invocation = "main.py" /\ discover /\ InBatchStage /\ StageConfig.found) =>
        /\ StageConfig.keys = {"repositories"}
        /\ stage = "clone.py" => CloneRateLimit = 1
        /\ stage = "override.py" =>
               /\ "override_sources" \notin StageConfig.keys
               /\ GetOverrideSources(StageConfig).list = <<AwsDir, K8sDir>>

(***************************************************************************)
(* C31                                                                     *)
(***************************************************************************)
\* a listing of the run ended on a request that failed
SomeListingFailed == \E e \in Range(DiscoveryLog) : e.failed

\* C31: in the discovery stage, when a listing request of a project or
\* workspace fails on some page, the entries of its earlier pages are kept,
\* the other descriptors and targets are still queried, and the stage exits
\* 0 as long as at least one URL was collected overall (the file being
\* writable): a listing error alone never makes the exit status non-zero.
C31_ListingErrorKeepsTheRest ==
    (DiscoveryRan /\ SomeListingFailed) =>
        /\ \A kind \in {"server", "cloud"} :
               Usable(bitbucket[kind]) =>
                   \A i \in 1..Len(bitbucket[kind].descriptors) :
                       \E e \in Range(DiscoveryLog) :
                           /\ e.kind = kind
                           /\ e.name = bitbucket[kind].descriptors[i].name
        /\ (LinksOf("server") \o LinksOf("cloud") # <<>>)
               => (ended = "completed" /\ exit_code = 0)
                      \/ ended = "write_error"
        /\ ended = "completed" =>
               \A x \in Range(LinksOf("server") \o LinksOf("cloud")) :
                   x \in Range(gen_script.repositories)

(***************************************************************************)
(* C32                                                                     *)
(***************************************************************************)
\* the number of attempts made on the positions 1..n
RECURSIVE AttemptsUpTo(_)
AttemptsUpTo(n) == IF n = 0 THEN 0 ELSE AttemptsUpTo(n - 1) + Tried(n)

\* the stage process is in its loop over N >= 1 items
InPasses == InBatchStage /\ pc \in {"first_pass", "retry_pass"} /\ Len(items) >= 1

\* C32: provided every item attempt terminates, every run of the clone,
\* override or pull stage over N items eventually reaches its summary and
\* exits, after at least N and at most 2N attempts; the retry pass is run at
\* most once, so no item is attempted a third time.
C32_RunsReachTheirSummary ==
    /\ [](InBatchStage => \A i \in Positions : Tried(i) <= 2)
    /\ []((InBatchStage /\ pc = "exited" /\ Len(items) >= 1) =>
             /\ ended = "summary"
             /\ AttemptsUpTo(Len(items)) >= Len(items)
             /\ AttemptsUpTo(Len(items)) <= 2 * Len(items))
    /\ InPasses ~> AtSummary

=============================================================================
